---- MODULE Spec2Model ----
(***************************************************************************)
(* Model of the hybrid shopping agent: the orchestrator callAgent, the     *)
(* new-search detector, the rule-based query reformulator and the          *)
(* rule-based intent fallback.  Strings are TLA+ strings handled character *)
(* by character, so substring, prefix and word-boundary matching behave as *)
(* in the source.                                                          *)
(***************************************************************************)
EXTENDS Integers, Sequences, FiniteSets, TLC

VARIABLES
  store,   \* stateStore: thread id -> ConversationState, for the threads that have one
  last,    \* what the most recent call did (history of one call)
  calls,   \* number of callAgent calls made so far
  rf,      \* harness of the rule-based reformulator: its input and its result
  fu,      \* harness of the follow-up detection: its input and its result
  dn,      \* harness of detectNewSearch: its input and its result
  fm,      \* harness of the filter update of STEP 5: its input and its result
  fb,      \* harness of fallbackIntent: its input and its result
  ta,      \* the tool-calling agent: its shared search tool and its requests
  reqs     \* overlapping calls of callAgent: request id -> its position and locals

vars == <<store, last, calls, rf, fu, dn, fm, fb, ta, reqs>>

\* ------------------------------------------------------------------------
\* Inputs: thread ids, user messages, base queries
\* ------------------------------------------------------------------------

Threads == {"t1"}

\* messages sent to callAgent
Messages ==
  {"sofa", "putih", "ada meja kayu", "halo", "iya", "reset",
   "where is your store", "tell me more"}

\* base queries and messages given to the rule-based reformulator on its own
RfBaseWords ==
  {"sofa", "meja", "kursi", "lemari", "rak", "buffet", "bed", "kasur",
   "couch", "table", "chair", "cabinet", "shelf"}

RfBases ==
  RfBaseWords \cup {"", "sofa putih", "Sofa", "coffee table", "cari sofa kulit murah",
                    "sofa putih besar"}

RfAttributeWords ==
  {"putih", "white", "hitam", "black", "coklat", "brown", "merah", "red",
   "biru", "blue", "hijau", "green", "kuning", "yellow", "abu", "gray",
   "grey", "cream", "beige", "gold", "emas", "silver", "perak",
   "kayu", "wood", "kulit", "leather", "kain", "fabric", "besi", "metal",
   "rotan", "rattan", "plastik", "plastic", "kaca", "glass", "marmer",
   "marble", "velvet", "beludru", "linen", "katun", "canvas",
   "murah", "cheap", "mahal", "expensive", "hemat", "economical",
   "terjangkau", "affordable"}

RfMessages ==
  RfAttributeWords \cup
  {"sofa", "sofa hitam", "cari meja", "ada meja kayu", "saya mau warna putih",
   "Putih", "kulit putih murah", "yang besar sekali putih", "iya", "show white"}

\* messages given to detectNewSearch on its own, besides those above
DnExtraMessages ==
  {"Meja Kayu", "coffee table", "show me rak murah", "tampilkan", "find chair",
   "SOFA", "kursi kulit hitam", "meja tamu putih", "apa ada yang murah",
   "tampilkan yang putih"}

\* the turns of one refinement conversation, in order
Script == <<"sofa", "putih", "kulit">>

ScriptMessages == {Script[i] : i \in 1..Len(Script)}

KnownMessages == Messages \cup RfMessages \cup DnExtraMessages

\* ------------------------------------------------------------------------
\* String primitives (String.prototype and RegExp behaviour used by the code)
\* ------------------------------------------------------------------------

UpperAlpha == "ABCDEFGHIJKLMNOPQRSTUVWXYZ"

LowerAlpha == "abcdefghijklmnopqrstuvwxyz"

CharAt(s, i) == SubSeq(s, i, i)

UpperChars == {CharAt(UpperAlpha, i) : i \in 1..26}

LowerChars == {CharAt(LowerAlpha, i) : i \in 1..26}

LowerOf ==
  [c \in UpperChars |-> CharAt(LowerAlpha, CHOOSE i \in 1..26 : CharAt(UpperAlpha, i) = c)]

ToLowerChar(c) == IF c \in UpperChars THEN LowerOf[c] ELSE c

RECURSIVE ToLowerFrom(_, _)
ToLowerFrom(s, i) ==
  IF i > Len(s) THEN "" ELSE ToLowerChar(CharAt(s, i)) \o ToLowerFrom(s, i + 1)

ToLower(s) == ToLowerFrom(s, 1)

IsSpace(c) == c = " "

IsWordChar(c) == c \in LowerChars \/ c \in UpperChars \/ c = "_"

\* number of leading / trailing whitespace characters
RECURSIVE LeadingSpacesFrom(_, _)
LeadingSpacesFrom(s, i) ==
  IF i <= Len(s) /\ IsSpace(CharAt(s, i)) THEN LeadingSpacesFrom(s, i + 1) ELSE i - 1

RECURSIVE TrailingSpacesFrom(_, _)
TrailingSpacesFrom(s, i) ==
  IF i >= 1 /\ IsSpace(CharAt(s, i)) THEN TrailingSpacesFrom(s, i - 1) ELSE Len(s) - i

LeadingSpaces(s) == LeadingSpacesFrom(s, 1)

TrailingSpaces(s) == TrailingSpacesFrom(s, Len(s))

TrimStart(s) == SubSeq(s, LeadingSpaces(s) + 1, Len(s))

TrimEnd(s) == SubSeq(s, 1, Len(s) - TrailingSpaces(s))

Trim(s) == TrimEnd(TrimStart(s))

StartsWith(s, p) == Len(p) <= Len(s) /\ SubSeq(s, 1, Len(p)) = p

Includes(s, p) == \E i \in 1..(Len(s) - Len(p) + 1) : SubSeq(s, i, i + Len(p) - 1) = p

StartsWithAny(s, alts) == \E i \in 1..Len(alts) : StartsWith(s, alts[i])

IncludesAny(s, alts) == \E i \in 1..Len(alts) : Includes(s, alts[i])

\* s.split(/\s+/).filter(w => w.length > 0)
RECURSIVE SplitWords(_, _, _)
SplitWords(s, i, start) ==
  IF i > Len(s) THEN (IF start < i THEN <<SubSeq(s, start, i - 1)>> ELSE <<>>)
  ELSE IF IsSpace(CharAt(s, i))
       THEN (IF start < i THEN <<SubSeq(s, start, i - 1)>> ELSE <<>>)
              \o SplitWords(s, i + 1, i + 1)
       ELSE SplitWords(s, i + 1, start)

Words(s) == SplitWords(s, 1, 1)

\* first element of a sequence satisfying a test, "" when none (Array.find)
InSeq(x, seq) == \E i \in 1..Len(seq) : seq[i] = x

FirstOrEmpty(found) == IF Len(found) > 0 THEN found[1] ELSE ""

FindIncluded(seq, s) == FirstOrEmpty(SelectSeq(seq, LAMBDA w : Includes(s, w)))

\* /\bw\b/gi matches at position i of s (s is lower-cased by the caller, as is w)
WordMatchAt(s, w, i) ==
  /\ i + Len(w) - 1 <= Len(s)
  /\ SubSeq(s, i, i + Len(w) - 1) = w
  /\ (i = 1 \/ ~IsWordChar(CharAt(s, i - 1)))
  /\ (i + Len(w) > Len(s) \/ ~IsWordChar(CharAt(s, i + Len(w))))

RECURSIVE RemoveWordFrom(_, _, _)
RemoveWordFrom(s, w, i) ==
  IF i > Len(s) THEN ""
  ELSE IF WordMatchAt(s, w, i) THEN RemoveWordFrom(s, w, i + Len(w))
       ELSE CharAt(s, i) \o RemoveWordFrom(s, w, i + 1)

\* s.replace(new RegExp(`\\b${w}\\b`, "gi"), "").trim()
RemoveWord(s, w) == IF Includes(s, w) THEN Trim(RemoveWordFrom(s, w, 1)) ELSE Trim(s)

RECURSIVE RemoveEach(_, _)
RemoveEach(s, ws) ==
  IF Len(ws) = 0 THEN s ELSE RemoveEach(RemoveWord(s, Head(ws)), Tail(ws))

\* for (const w of ws) s = s.replace(/\bw\b/gi, "").trim(); a word that does not
\* occur in s leaves it unchanged but for the trim, and removing a whole word
\* never creates an occurrence of another, so only the words occurring in s
\* are visited
RemoveWords(s, ws) == RemoveEach(Trim(s), SelectSeq(ws, LAMBDA w : Includes(s, w)))

\* s.replace(/^(a1|a2|...)\s*/i, ""): the first alternative that is a prefix wins
StripPrefix(s, prefix) ==
  IF prefix # "" THEN TrimStart(SubSeq(s, Len(prefix) + 1, Len(s))) ELSE s

FirstPrefix(ls, alts) == FirstOrEmpty(SelectSeq(alts, LAMBDA a : StartsWith(ls, a)))

StripLead(s, alts) == StripPrefix(s, FirstPrefix(ToLower(s), alts))

RECURSIVE JoinWords(_)
JoinWords(ws) ==
  IF Len(ws) = 0 THEN ""
  ELSE IF Len(ws) = 1 THEN ws[1]
  ELSE ws[1] \o " " \o JoinWords(Tail(ws))

\* ------------------------------------------------------------------------
\* QueryReformulator.ruleBasedReformulate (tier 1)
\* ------------------------------------------------------------------------

fillerWords ==
  <<"saya", "mau", "yang", "ada", "adakah", "apa", "boleh", "bisa",
    "yang", "warna", "bahannya", "buat", "untuk", "beli", "cari",
    "i", "want", "would", "like", "the", "that", "this", "is", "are">>

rfNewSearchKeywords ==
  <<"cari ", "cariin", "tampil", "show", "find", "looking for",
    "ada ", "adakah", "apa ada", "is there">>

rfCategories ==
  <<"sofa", "meja", "kursi", "lemari", "rak", "buffet", "bed", "kasur",
    "couch", "table", "chair", "cabinet", "shelf", "coffee table">>

colors ==
  <<"putih", "white", "hitam", "black", "coklat", "brown", "merah", "red",
    "biru", "blue", "hijau", "green", "kuning", "yellow", "abu", "gray",
    "grey", "cream", "beige", "gold", "emas", "silver", "perak">>

materials ==
  <<"kayu", "wood", "kulit", "leather", "kain", "fabric", "besi", "metal",
    "rotan", "rattan", "plastik", "plastic", "kaca", "glass", "marmer",
    "marble", "velvet", "beludru", "linen", "katun", "canvas">>

priceRefs ==
  <<"murah", "cheap", "mahal", "expensive", "hemat", "economical",
    "terjangkau", "affordable">>

rfLeadIns ==
  <<"saya mau", "saya cari", "cari", "mau", "beli", "tampil", "show", "find",
    "looking for", "i want", "i need", "adakah", "apa ada">>

rfLeadIns2 == <<"yang", "yang warna", "yang bahannya", "warna", "bahannya">>

NoAttributes == [category |-> "", color |-> "", material |-> "", price |-> ""]

\* the value `null` of ruleBasedReformulate: no definite result
NoResult ==
  [definite |-> FALSE, query |-> "", isContinuation |-> FALSE,
   isNewSearch |-> FALSE, detectedAttributes |-> NoAttributes]

\* the raw message, neither continuation nor new search
RawResult(userMessage) ==
  [definite |-> TRUE, query |-> userMessage, isContinuation |-> FALSE,
   isNewSearch |-> FALSE, detectedAttributes |-> NoAttributes]

SelectNotFiller(ws) == SelectSeq(ws, LAMBDA w : ~InSeq(w, fillerWords))

AllFillerOrAttribute(ws) ==
  \A i \in 1..Len(ws) :
    \/ InSeq(ws[i], fillerWords) \/ InSeq(ws[i], colors)
    \/ InSeq(ws[i], materials)   \/ InSeq(ws[i], priceRefs)

\* the base query with its lead-ins removed and its old attributes kept
CleanBaseQueryKeepingAttributes(baseQuery) ==
  Trim(StripLead(StripLead(Trim(baseQuery), rfLeadIns), rfLeadIns2))

\* base query with old colors, materials, price words and lead-ins removed
CleanBaseQuery(baseQuery) ==
  Trim(StripLead(StripLead(
         RemoveWords(RemoveWords(RemoveWords(baseQuery, colors), materials), priceRefs),
         rfLeadIns), rfLeadIns2))

AttributeList(c, m, p) ==
  (IF c # "" THEN <<c>> ELSE <<>>) \o (IF m # "" THEN <<m>> ELSE <<>>)
    \o (IF p # "" THEN <<p>> ELSE <<>>)

\* what ruleBasedReformulate derives from msg, the message lower-cased and trimmed
rfFactsOf(msg) ==
  [isNewSearch          |-> StartsWithAny(msg, rfNewSearchKeywords),
   mentionedCategory    |-> FindIncluded(rfCategories, msg),
   mentionedColor       |-> FindIncluded(colors, msg),
   mentionedMaterial    |-> FindIncluded(materials, msg),
   mentionedPrice       |-> FindIncluded(priceRefs, msg),
   fewMeaningfulWords   |-> Len(SelectNotFiller(Words(msg))) <= 2,
   allFillerOrAttribute |-> AllFillerOrAttribute(Words(msg))]

\* the same, kept per message
rfMessageTable == [m \in KnownMessages |-> rfFactsOf(Trim(ToLower(m)))]

rfFacts(userMessage) == rfMessageTable[userMessage]

hasAttribute(f) ==
  f.mentionedColor # "" \/ f.mentionedMaterial # "" \/ f.mentionedPrice # ""

rfNewQuery(cleanBaseQuery, attributes) ==
  IF Len(attributes) > 0
  THEN Trim(cleanBaseQuery \o " " \o JoinWords(attributes))
  ELSE cleanBaseQuery

\* lines 139-149: the raw message as a new search of the category found
rfNewSearchResult(userMessage, f) ==
  [definite |-> TRUE, query |-> userMessage, isContinuation |-> FALSE,
   isNewSearch |-> TRUE,
   detectedAttributes |-> [NoAttributes EXCEPT !.category = f.mentionedCategory]]

\* lines 185-228: the cleaned base query followed by this message's attributes
rfContinuationResult(f, baseQuery) ==
  [definite |-> TRUE,
   query |-> rfNewQuery(CleanBaseQuery(baseQuery),
                        AttributeList(f.mentionedColor, f.mentionedMaterial,
                                      f.mentionedPrice)),
   isContinuation |-> TRUE, isNewSearch |-> FALSE,
   detectedAttributes |-> [category |-> "", color |-> f.mentionedColor,
                           material |-> f.mentionedMaterial,
                           price |-> f.mentionedPrice]]

\* the decision with the word-count test alone: at most 2 meaningful words
rfDecideFewWordsOnly(userMessage, f, baseQuery) ==
  IF f.mentionedCategory # "" /\ f.mentionedCategory # baseQuery
  THEN rfNewSearchResult(userMessage, f)
  ELSE IF hasAttribute(f) /\ baseQuery # "" /\ ~f.isNewSearch /\ f.fewMeaningfulWords
  THEN rfContinuationResult(f, baseQuery)
  ELSE IF baseQuery = "" THEN RawResult(userMessage)
  ELSE NoResult

\* the decision with the test for a missing base query made first
rfDecideEmptyBaseFirst(userMessage, f, baseQuery) ==
  IF baseQuery = "" THEN RawResult(userMessage)
  ELSE IF f.mentionedCategory # "" /\ f.mentionedCategory # baseQuery
  THEN rfNewSearchResult(userMessage, f)
  ELSE IF /\ hasAttribute(f) /\ ~f.isNewSearch
          /\ (f.fewMeaningfulWords \/ f.allFillerOrAttribute)
  THEN rfContinuationResult(f, baseQuery)
  ELSE NoResult

\* the decision of ruleBasedReformulate; baseQuery is lower-cased
rfDecide(userMessage, f, baseQuery) ==
  IF f.mentionedCategory # "" /\ f.mentionedCategory # baseQuery
  THEN rfNewSearchResult(userMessage, f)
  ELSE IF /\ hasAttribute(f) /\ baseQuery # "" /\ ~f.isNewSearch
          /\ (f.fewMeaningfulWords \/ f.allFillerOrAttribute)
  THEN rfContinuationResult(f, baseQuery)
  ELSE IF baseQuery = "" THEN RawResult(userMessage)
  ELSE NoResult

ruleBasedReformulate(userMessage, ctxBaseQuery) ==
  rfDecide(userMessage, rfFacts(userMessage), ToLower(ctxBaseQuery))

\* ------------------------------------------------------------------------
\* IntentExtractor.fallbackIntent (rule-based extraction when the LLM fails)
\* ------------------------------------------------------------------------

LettersOnly(s) == \A i \in 1..Len(s) : IsWordChar(CharAt(s, i)) /\ CharAt(s, i) # "_"

\* s.replace(new RegExp(w, "gi"), ""); ls is s lower-cased, w is lower case
RECURSIVE RemoveAllFrom(_, _, _, _)
RemoveAllFrom(s, ls, w, i) ==
  IF i > Len(s) THEN ""
  ELSE IF i + Len(w) - 1 <= Len(s) /\ SubSeq(ls, i, i + Len(w) - 1) = w
       THEN RemoveAllFrom(s, ls, w, i + Len(w))
       ELSE CharAt(s, i) \o RemoveAllFrom(s, ls, w, i + 1)

RemoveAll(s, w) == RemoveAllFrom(s, ToLower(s), w, 1)

\* s.replace(/^(a1|a2|...)\s*,?\s*/i, "")
StripComma(s, r) ==
  IF r # s /\ Len(r) > 0 /\ CharAt(r, 1) = ","
  THEN TrimStart(SubSeq(r, 2, Len(r)))
  ELSE r

StripLeadComma(s, alts) == StripComma(s, StripLead(s, alts))

EmptyFilters == [k \in {} |-> ""]

indonesianIndicators ==
  <<"apa", "ada", "saya", "mau", "cari", "tampil", "tolong", "halo", "hai",
    "boleh", "bisa", "produk", "barang", "warna", "harga">>

greetingPrefixes ==
  <<"hi", "hello", "halo", "hai", "selamat", "pagi", "siang", "sore", "malam">>

helpPrefixes == <<"help", "bantu", "bagaimana", "cara">>

clearKeywords == <<"reset", "hapus", "clear", "kosongkan">>

fbLeadIns ==
  <<"saya mau", "saya cari", "cari", "mau", "tampil", "show", "find",
    "looking for", "i want", "i need", "adakah", "apa ada">>

fbGreetingLeadIns ==
  <<"hai", "halo", "hello", "hi", "selamat", "pagi", "siang", "sore", "malam">>

fbColors ==
  <<"putih", "white", "hitam", "black", "coklat", "brown", "merah", "red",
    "biru", "blue", "hijau", "green", "kuning", "yellow", "abu", "gray", "grey">>

fbMaterials ==
  <<"kayu", "wood", "kulit", "leather", "kain", "fabric", "besi", "metal",
    "rotan", "rattan", "plastik", "plastic", "kaca", "glass">>

normalizeColor(color) ==
  IF Len(color) <= 5 THEN color
  ELSE IF color = "white"  THEN "putih"
  ELSE IF color = "black"  THEN "hitam"
  ELSE IF color = "brown"  THEN "coklat"
  ELSE IF color = "red"    THEN "merah"
  ELSE IF color = "blue"   THEN "biru"
  ELSE IF color = "green"  THEN "hijau"
  ELSE IF color = "yellow" THEN "kuning"
  ELSE IF color = "gray" \/ color = "grey" THEN "abu"
  ELSE color

normalizeMaterial(material) ==
  IF Len(material) <= 5 THEN material
  ELSE IF material = "wood"    THEN "kayu"
  ELSE IF material = "leather" THEN "kulit"
  ELSE IF material = "fabric"  THEN "kain"
  ELSE IF material = "metal"   THEN "besi"
  ELSE IF material = "rattan"  THEN "rotan"
  ELSE IF material = "plastic" THEN "plastik"
  ELSE IF material = "glass"   THEN "kaca"
  ELSE material

\* the intent rules ending in "unknown" where the code ends in "search"
fallbackIntentTypeUnknownDefault(msg) ==
  IF StartsWithAny(msg, greetingPrefixes) THEN "greeting"
  ELSE IF StartsWithAny(msg, helpPrefixes) THEN "help"
  ELSE IF IncludesAny(msg, clearKeywords) THEN "filter_clear"
  ELSE "unknown"

fallbackIntentType(msg) ==
  IF StartsWithAny(msg, greetingPrefixes) THEN "greeting"
  ELSE IF StartsWithAny(msg, helpPrefixes) THEN "help"
  ELSE IF IncludesAny(msg, clearKeywords) THEN "filter_clear"
  ELSE "search"

fallbackLanguage(msg) == IF StartsWithAny(msg, indonesianIndicators) THEN "id" ELSE "en"

fallbackFilters(color, material) ==
  [k \in (IF color # "" THEN {"color"} ELSE {}) \cup (IF material # "" THEN {"material"} ELSE {})
     |-> IF k = "color" THEN normalizeColor(color) ELSE normalizeMaterial(material)]

\* the message without its lead-in phrases
fbStripped(message) ==
  Trim(StripLead(StripLeadComma(StripLead(message, fbLeadIns), fbGreetingLeadIns),
                 rfLeadIns2))

\* searchQuery.replace(new RegExp(w, "gi"), "").trim() for the word found, if any
fbRemove(q, w) == IF w # "" THEN Trim(RemoveAll(q, w)) ELSE q

\* what fallbackIntent derives from the message alone; msg is it lower-cased
fbFactsWith(msg, stripped, color, material) ==
  [intent      |-> fallbackIntentType(msg),
   language    |-> fallbackLanguage(msg),
   filters     |-> fallbackFilters(color, material),
   searchQuery |-> fbRemove(fbRemove(stripped, color), material)]

fbFactsOf(msg, stripped) ==
  fbFactsWith(msg, stripped, FindIncluded(fbColors, msg), FindIncluded(fbMaterials, msg))

\* the same, kept per message
fbMessageTable == [m \in KnownMessages |-> fbFactsOf(ToLower(m), fbStripped(m))]

fbFacts(message) == fbMessageTable[message]

isOnlyAttribute(q) == Len(q) <= 10 \/ (Len(q) >= 3 /\ Len(q) <= 10 /\ LettersOnly(q))

\* a short attribute-only query is replaced by the last query and the message
fbJoinLast(q, hasFilters, message, lastQuery) ==
  IF isOnlyAttribute(q) /\ lastQuery # "" /\ hasFilters
  THEN Trim(lastQuery \o " " \o message)
  ELSE q

fbNonEmpty(q, message, lastQuery) ==
  IF Len(q) = 0 THEN (IF lastQuery # "" THEN lastQuery ELSE message) ELSE q

fbResult(f, message, lastQuery) ==
  [intent       |-> f.intent,
   search_query |-> fbNonEmpty(fbJoinLast(f.searchQuery, DOMAIN f.filters # {},
                                          message, lastQuery),
                               message, lastQuery),
   filters      |-> f.filters,
   language     |-> f.language,
   faq_topic    |-> ""]

fallbackIntent(message, lastQuery) == fbResult(fbFacts(message), message, lastQuery)

\* ------------------------------------------------------------------------
\* detectNewSearch
\* ------------------------------------------------------------------------

dnCategories ==
  <<"sofa", "settee", "couch", "meja", "table", "kursi", "chair",
    "lemari", "cabinet", "rak", "shelf", "buffet", "sideboard",
    "bed", "kasur", "mattress", "coffee table", "meja tamu", "meja kopi">>

dnNewSearchKeywords ==
  <<"cari meja", "cari kursi", "cari lemari", "cari rak", "cari bed",
    "find table", "find chair", "find cabinet", "show me", "tampilkan">>

\* CEK 4: the attribute words, whose presence changes nothing in the result
dnAttributes ==
  <<"putih", "white", "hitam", "black", "coklat", "brown",
    "merah", "red", "biru", "blue", "hijau", "green",
    "kayu", "wood", "kulit", "leather", "kain", "fabric",
    "murah", "cheap", "mahal", "expensive">>

IntentCategory(intent) ==
  IF "category" \in DOMAIN intent.filters THEN intent.filters["category"] ELSE ""

\* what detectNewSearch derives from msg, the message lower-cased and trimmed
dnFactsOf(msg) ==
  [categories |-> SelectSeq(dnCategories, LAMBDA cat : Includes(msg, cat)),
   keyword    |-> IncludesAny(msg, dnNewSearchKeywords)]

\* the same, kept per message
dnMessageTable == [m \in KnownMessages |-> dnFactsOf(Trim(ToLower(m)))]

dnFacts(userMessage) == dnMessageTable[userMessage]

\* CEK 1 on its own
NewCategoryInMessage(f, base) ==
  \E i \in 1..Len(f.categories) : ~Includes(base, f.categories[i])

\* CEK 2 and CEK 3 only
dnDecideNoCategoryScan(f, base, category) ==
  \/ (category # "" /\ category # base)
  \/ f.keyword

\* CEK 1, CEK 2, CEK 3; base is the base query lower-cased
dnDecide(f, base, category) ==
  \/ \E i \in 1..Len(f.categories) : ~Includes(base, f.categories[i])
  \/ (category # "" /\ category # base)
  \/ f.keyword

\* detectNewSearch without CEK 1, the scan of the message for category words
detectNewSearchNoCategoryScan(userMessage, currentBaseQuery, intent) ==
  dnDecideNoCategoryScan(dnFacts(userMessage), ToLower(currentBaseQuery),
                         IntentCategory(intent))

\* detectNewSearch with CEK 4, the attribute check, made before CEK 1
detectNewSearchAttributeFirst(userMessage, currentBaseQuery, intent) ==
  /\ ~IncludesAny(Trim(ToLower(userMessage)), dnAttributes)
  /\ dnDecide(dnFacts(userMessage), ToLower(currentBaseQuery), IntentCategory(intent))

\* detectNewSearch without CEK 2, the comparison of the Intent's category
detectNewSearchNoIntentCategory(userMessage, currentBaseQuery, intent) ==
  \/ NewCategoryInMessage(dnFacts(userMessage), ToLower(currentBaseQuery))
  \/ dnFacts(userMessage).keyword

detectNewSearch(userMessage, currentBaseQuery, intent) ==
  dnDecide(dnFacts(userMessage), ToLower(currentBaseQuery), IntentCategory(intent))

\* ------------------------------------------------------------------------
\* ConversationStateStore: default state and the update reducer
\* ------------------------------------------------------------------------

DefaultState ==
  [language     |-> "id",
   filters      |-> EmptyFilters,
   search       |-> [query |-> "", baseQuery |-> "", results |-> <<>>,
                     resultCount |-> 0, searchType |-> "none"],
   lastIntent   |-> "",
   lastFaqTopic |-> "",
   messages     |-> <<>>]

SetKey(f, k, v) == [x \in DOMAIN f \cup {k} |-> IF x = k THEN v ELSE f[x]]

SetLanguage(s, value) == [s EXCEPT !.language = value]

SetFilter(s, key, value) == [s EXCEPT !.filters = SetKey(s.filters, key, value)]

ClearFilters(s) == [s EXCEPT !.filters = EmptyFilters]

\* SET_SEARCH that stores the results and leaves the old count
SetSearchStaleCount(s, query, baseQuery, results, searchType) ==
  [s EXCEPT !.search = [query       |-> query,
                        baseQuery   |-> IF baseQuery # "" THEN baseQuery
                                        ELSE s.search.baseQuery,
                        results     |-> results,
                        resultCount |-> s.search.resultCount,
                        searchType  |-> searchType]]

SetSearch(s, query, baseQuery, results, searchType) ==
  [s EXCEPT !.search = [query       |-> query,
                        baseQuery   |-> IF baseQuery # "" THEN baseQuery
                                        ELSE s.search.baseQuery,
                        results     |-> results,
                        resultCount |-> Len(results),
                        searchType  |-> searchType]]

SetBaseQuery(s, value) == [s EXCEPT !.search.baseQuery = value]

SetLastIntent(s, intent, faqTopic) ==
  [s EXCEPT !.lastIntent = intent, !.lastFaqTopic = faqTopic]

AddMessage(s, role, content) ==
  [s EXCEPT !.messages = Append(s.messages, [role |-> role, content |-> content])]

getOrCreate(st, threadId) == IF threadId \in DOMAIN st THEN st[threadId] ELSE DefaultState

\* a store that writes the state under every thread id it holds
PutEveryThread(st, threadId, s) == [t \in DOMAIN st \cup {threadId} |-> s]

\* a store that keeps a state only for the threads that already have one
PutIfPresent(st, threadId, s) ==
  [t \in DOMAIN st |-> IF t = threadId THEN s ELSE st[t]]

Put(st, threadId, s) == [t \in DOMAIN st \cup {threadId} |-> IF t = threadId THEN s ELSE st[t]]

\* ------------------------------------------------------------------------
\* External collaborators: classifier, tier-2 reformulation, search service
\* ------------------------------------------------------------------------

NoIntent ==
  [intent |-> "", search_query |-> "", filters |-> EmptyFilters,
   language |-> "", faq_topic |-> ""]

\* Intents the external classifier may return for each message
classifierAnswers ==
  [m \in Messages \cup ScriptMessages |->
     CASE m = "sofa" ->
            << [NoIntent EXCEPT !.intent = "search", !.language = "en",
                                !.search_query = "sofa",
                                !.filters = [category |-> "sofa"]] >>
       [] m = "putih" ->
            << [NoIntent EXCEPT !.intent = "filter_add", !.language = "en",
                                !.filters = [color |-> "putih", price_min |-> 0,
                                             price_max |-> 500]],
               [NoIntent EXCEPT !.intent = "search", !.language = "en",
                                !.search_query = "sofa putih",
                                !.filters = [category |-> "sofa", color |-> "putih"]] >>
       [] m = "kulit" ->
            << [NoIntent EXCEPT !.intent = "filter_add", !.language = "en",
                                !.filters = [material |-> "kulit"]],
               [NoIntent EXCEPT !.intent = "search", !.language = "en",
                                !.search_query = "sofa kulit putih",
                                !.filters = [category |-> "sofa", color |-> "putih",
                                             material |-> "kulit"]] >>
       [] m = "ada meja kayu" ->
            << [NoIntent EXCEPT !.intent = "search", !.language = "en"],
               [NoIntent EXCEPT !.intent = "search", !.language = "en",
                                !.search_query = "meja kayu",
                                !.filters = [category |-> "meja", material |-> "kayu"]] >>
       [] m = "halo" ->
            << [NoIntent EXCEPT !.intent = "greeting", !.language = "en"] >>
       [] m = "iya" ->
            << [NoIntent EXCEPT !.intent = "unknown", !.language = "en"] >>
       [] m = "where is your store" ->
            << [NoIntent EXCEPT !.intent = "faq_info", !.language = "en",
                                !.faq_topic = "location"] >>
       [] m = "tell me more" ->
            << [NoIntent EXCEPT !.intent = "product_info", !.language = "en"] >>
       [] m = "reset" ->
            << [NoIntent EXCEPT !.intent = "filter_clear", !.language = "id"],
               [NoIntent EXCEPT !.intent = "filter_clear", !.language = "en",
                                !.filters = [color |-> "putih"]] >> ]

\* extract with nothing in place of the fallback
extractNoFallback(userMessage, lastQuery, c) ==
  IF c = 0 THEN [NoIntent EXCEPT !.intent = "unknown", !.language = "en"]
  ELSE classifierAnswers[userMessage][c]

\* IntentExtractor.extract: the classifier's answer, or the fallback when it fails (c = 0)
extract(userMessage, lastQuery, c) ==
  IF c = 0 THEN fallbackIntent(userMessage, lastQuery) ELSE classifierAnswers[userMessage][c]

Tier2Outcomes == <<"fail", "continuation", "new_search">>

\* llmReformulate falling back to the base query followed by the message
llmReformulateAppending(userMessage, baseQuery, outcome) ==
  [definite |-> TRUE, query |-> ToLower(baseQuery) \o " " \o userMessage,
   isContinuation |-> (outcome # "new_search"), isNewSearch |-> (outcome = "new_search"),
   detectedAttributes |-> NoAttributes]

\* QueryReformulator.llmReformulate: the LLM's answer, or the raw message when it fails
llmReformulate(userMessage, baseQuery, outcome) ==
  IF outcome = "fail" THEN RawResult(userMessage)
  ELSE IF outcome = "continuation"
  THEN [definite |-> TRUE, query |-> ToLower(baseQuery) \o " " \o userMessage,
        isContinuation |-> TRUE, isNewSearch |-> FALSE,
        detectedAttributes |-> NoAttributes]
  ELSE [definite |-> TRUE, query |-> userMessage,
        isContinuation |-> FALSE, isNewSearch |-> TRUE,
        detectedAttributes |-> NoAttributes]

\* reformulate asking tier 2 whatever tier 1 returned
reformulateLlmAlways(userMessage, baseQuery, outcome) ==
  [result |-> llmReformulate(userMessage, baseQuery, outcome), llmCalls |-> 1]

\* QueryReformulator.reformulate: tier 1 first, tier 2 when tier 1 returns null;
\* llmCalls counts the calls of llmReformulate it made
reformulate(userMessage, baseQuery, outcome) ==
  IF ruleBasedReformulate(userMessage, baseQuery).definite
  THEN [result |-> ruleBasedReformulate(userMessage, baseQuery), llmCalls |-> 0]
  ELSE [result |-> llmReformulate(userMessage, baseQuery, outcome), llmCalls |-> 1]

\* ProductSearchService.search: it fails, or returns products with their count
SearchOutcomes ==
  << [failed |-> TRUE,  products |-> <<>>, count |-> 0, searchType |-> "none"],
     [failed |-> FALSE, products |-> <<>>, count |-> 0, searchType |-> "none"],
     [failed |-> FALSE, products |-> <<"p1", "p2", "p3">>, count |-> 3,
      searchType |-> "vector"],
     [failed |-> FALSE, products |-> <<"p4", "p5", "p6", "p7">>, count |-> 4,
      searchType |-> "text"] >>

\* ------------------------------------------------------------------------
\* callAgent (hybrid agent with follow-up detection and language check)
\* ------------------------------------------------------------------------

affirmativeTokens ==
  <<"yes", "ok", "oke", "okay", "mau", "boleh", "tentu", "sure", "please",
    "tolong", "ingin", "ingin tahu", "bisa", "dong">>

RepeatsA(q, p) ==
  /\ StartsWith(q, p) /\ Len(q) > Len(p)
  /\ \A i \in (Len(p) + 1)..Len(q) : CharAt(q, i) = "a"

isAffirmativeToken(q) ==
  InSeq(q, affirmativeTokens) \/ RepeatsA(q, "iy") \/ RepeatsA(q, "y")

isAffirmativeResponse(query) == isAffirmativeToken(ToLower(Trim(query)))

isShortMessage(query) == Len(Trim(query)) < 20

\* the follow-up test without the test of the classified intent
followUpFiresAnyIntent(query, intent) ==
  isAffirmativeResponse(query) /\ isShortMessage(query)

followUpFires(query, intent) ==
  isAffirmativeResponse(query) /\ isShortMessage(query) /\ intent.intent = "unknown"

\* the follow-up table without its product-search row
resolveFollowUpNoProductRow(state, query, intent) ==
  IF ~followUpFires(query, intent) THEN intent
  ELSE IF state.lastIntent = "faq_info" /\ state.lastFaqTopic = "location"
  THEN [NoIntent EXCEPT !.intent = "faq_info", !.faq_topic = "hours",
                        !.language = intent.language]
  ELSE [NoIntent EXCEPT !.intent = "help", !.language = intent.language]

\* the follow-up table with its first row taken for every FAQ topic
resolveFollowUpAnyFaqToHours(state, query, intent) ==
  IF ~followUpFires(query, intent) THEN intent
  ELSE IF state.lastIntent = "faq_info"
  THEN [NoIntent EXCEPT !.intent = "faq_info", !.faq_topic = "hours",
                        !.language = intent.language]
  ELSE IF state.lastIntent = "search" /\ state.search.resultCount > 0
  THEN [NoIntent EXCEPT !.intent = "product_info", !.language = intent.language]
  ELSE [NoIntent EXCEPT !.intent = "help", !.language = intent.language]

\* STEP 2.5: the intent used from here on
resolveFollowUp(state, query, intent) ==
  IF ~followUpFires(query, intent) THEN intent
  ELSE IF state.lastIntent = "faq_info" /\ state.lastFaqTopic = "location"
  THEN [NoIntent EXCEPT !.intent = "faq_info", !.faq_topic = "hours",
                        !.language = intent.language]
  ELSE IF state.lastIntent = "search" /\ state.search.resultCount > 0
  THEN [NoIntent EXCEPT !.intent = "product_info", !.language = intent.language]
  ELSE [NoIntent EXCEPT !.intent = "help", !.language = intent.language]

\* the special intents without greeting
isSpecialIntentNoGreeting(intent) ==
  intent.intent \in {"help", "faq_info", "product_info"}

isSpecialIntent(intent) ==
  intent.intent \in {"greeting", "help", "faq_info", "product_info"}

\* (Intent filter field, state filter key), in the order the code applies them
filterFields ==
  << <<"category", "category">>, <<"color", "color">>, <<"material", "material">>,
     <<"brand", "brand">>, <<"price_min", "priceMin">>, <<"price_max", "priceMax">> >>

\* the test of STEP 5 with a price of 0 counted as present
isTruthyOrZero(field, v) == IF field \in {"price_min", "price_max"} THEN TRUE ELSE v # ""

isTruthy(field, v) == IF field \in {"price_min", "price_max"} THEN v # 0 ELSE v # ""

RECURSIVE applyIntentFilters(_, _, _)
applyIntentFilters(s, f, i) ==
  IF i > Len(filterFields) THEN s
  ELSE LET field == filterFields[i][1]
           key   == filterFields[i][2]
       IN  IF field \in DOMAIN f /\ isTruthy(field, f[field])
           THEN applyIntentFilters(SetFilter(s, key, f[field]), f, i + 1)
           ELSE applyIntentFilters(s, f, i + 1)

\* the filter map replaced by the Intent's filters on every turn
updateFiltersReplacing(s, intent) ==
  applyIntentFilters(ClearFilters(s), intent.filters, 1)

\* the Intent's filters merged without ever clearing
updateFiltersNoClear(s, intent) ==
  applyIntentFilters(s, intent.filters, 1)

\* STEP 5 issues at least one update
issuesFilterUpdate(intent) ==
  \/ intent.intent = "filter_clear"
  \/ \E i \in 1..Len(filterFields) :
        /\ filterFields[i][1] \in DOMAIN intent.filters
        /\ isTruthy(filterFields[i][1], intent.filters[filterFields[i][1]])

\* STEP 5: CLEAR_FILTERS on filter_clear, then the Intent's filters
updateFilters(s, intent) ==
  applyIntentFilters(IF intent.intent = "filter_clear" THEN ClearFilters(s) ELSE s,
                     intent.filters, 1)

NoResponse ==
  [intro |-> "", products |-> <<>>, hasProducts |-> FALSE, productCount |-> 0,
   searchType |-> "", intent |-> "", detectedLanguage |-> ""]

NoSearchArgs == [query |-> "", n |-> 0, filters |-> EmptyFilters, searchType |-> ""]

\* what one call of callAgent did: the thread's state, the terminal reached,
\* the values the steps computed and the calls they made
NoTurn ==
  [state |-> DefaultState, terminal |-> "none", raised |-> FALSE,
   extracted |-> NoIntent, intent |-> NoIntent,
   currentBaseQuery |-> "", detectNew |-> FALSE, ruleBased |-> NoResult,
   reformulated |-> NoResult, reformulatorCalls |-> 0, tier2Calls |-> 0,
   searchCalls |-> 0, searchArgs |-> NoSearchArgs, setSearchUpdates |-> 0,
   response |-> NoResponse]

firstN(seq, n) == SubSeq(seq, 1, IF Len(seq) < n THEN Len(seq) ELSE n)

\* the fixed refusal without the ADD_MESSAGE
languageRefusalUnlogged(t, query) ==
  [t EXCEPT
     !.terminal = "refusal",
     !.response = [NoResponse EXCEPT !.intro = "refusal", !.searchType = "none",
                                     !.intent = "language_unsupported",
                                     !.detectedLanguage = t.intent.language]]

\* STEP 2.6: the fixed refusal, after logging the user message
languageRefusal(t, query) ==
  [t EXCEPT
     !.state    = AddMessage(t.state, "user", query),
     !.terminal = "refusal",
     !.response = [NoResponse EXCEPT !.intro = "refusal", !.searchType = "none",
                                     !.intent = "language_unsupported",
                                     !.detectedLanguage = t.intent.language]]

\* the special intents answered without SET_LAST_INTENT
specialIntentNotTracking(t, query) ==
  IF t.intent.intent = "product_info" /\ Len(t.state.search.results) > 0
  THEN [t EXCEPT
          !.state    = AddMessage(t.state, "user", query),
          !.terminal = "product_info",
          !.response = [NoResponse EXCEPT
                          !.intro = "productInfo",
                          !.products = firstN(t.state.search.results, 3),
                          !.hasProducts = TRUE,
                          !.productCount = Len(t.state.search.results),
                          !.searchType = "none",
                          !.intent = t.intent.intent,
                          !.detectedLanguage = t.intent.language]]
  ELSE [t EXCEPT
          !.state    = AddMessage(t.state, "user", query),
          !.terminal = "special",
          !.response = [NoResponse EXCEPT
                          !.intro = "generated", !.searchType = "none",
                          !.intent = t.intent.intent,
                          !.detectedLanguage = t.intent.language]]

\* the special intents answered with the stored search forgotten
specialIntentForgettingSearch(t, query) ==
  [t EXCEPT
     !.state    = [AddMessage(SetLastIntent(t.state, t.intent.intent,
                                            t.intent.faq_topic),
                              "user", query)
                     EXCEPT !.search = DefaultState.search],
     !.terminal = "special",
     !.response = [NoResponse EXCEPT
                     !.intro = "generated", !.searchType = "none",
                     !.intent = t.intent.intent,
                     !.detectedLanguage = t.intent.language]]

\* STEP 3: greeting, help, faq_info, product_info
specialIntent(t, query) ==
  IF t.intent.intent = "product_info" /\ Len(t.state.search.results) > 0
  THEN [t EXCEPT
          !.state    = AddMessage(SetLastIntent(t.state, t.intent.intent, ""),
                                  "user", query),
          !.terminal = "product_info",
          !.response = [NoResponse EXCEPT
                          !.intro = "productInfo",
                          !.products = firstN(t.state.search.results, 3),
                          !.hasProducts = TRUE,
                          !.productCount = Len(t.state.search.results),
                          !.searchType = "none",
                          !.intent = t.intent.intent,
                          !.detectedLanguage = t.intent.language]]
  ELSE [t EXCEPT
          !.state    = AddMessage(SetLastIntent(t.state, t.intent.intent,
                                                t.intent.faq_topic),
                                  "user", query),
          !.terminal = "special",
          !.response = [NoResponse EXCEPT
                          !.intro = "generated", !.searchType = "none",
                          !.intent = t.intent.intent,
                          !.detectedLanguage = t.intent.language]]

orElse(a, b) == IF a # "" THEN a ELSE b

\* the query of a new search taken from the raw message alone
newSearchQueryRaw(query, intent) ==
  [definite |-> TRUE, query |-> query,
   isContinuation |-> FALSE, isNewSearch |-> TRUE, detectedAttributes |-> NoAttributes]

\* STEP 4: the query of a new search and of a first query
newSearchQuery(query, intent) ==
  [definite |-> TRUE, query |-> orElse(intent.search_query, query),
   isContinuation |-> FALSE, isNewSearch |-> TRUE, detectedAttributes |-> NoAttributes]

firstQuery(query, intent) ==
  [definite |-> TRUE, query |-> orElse(intent.search_query, query),
   isContinuation |-> FALSE, isNewSearch |-> FALSE, detectedAttributes |-> NoAttributes]

\* a SET_BASE_QUERY on every search turn, continuation or not
updateBaseQueryAlways(s1, query, intent, continuation) ==
  SetBaseQuery(s1, orElse(intent.search_query, query))

\* STEP 4: SET_BASE_QUERY on a new search and on the first query only
updateBaseQuery(s1, query, intent, continuation) ==
  IF continuation THEN s1 ELSE SetBaseQuery(s1, orElse(intent.search_query, query))

\* STEP 4, in the order of the code; t is the turn so far
withCurrentBaseQuery(t, query) ==
  [t EXCEPT !.currentBaseQuery =
     orElse(t.state.search.baseQuery, orElse(t.intent.search_query, query))]

withDetectNew(t, query) ==
  [t EXCEPT !.detectNew = detectNewSearch(query, t.currentBaseQuery, t.intent)]

\* the else-if branch: not a new search and a base query is stored
continuation(t) == ~t.detectNew /\ t.state.search.baseQuery # ""

\* tier 1, called on a continuation only
withRuleBased(t, query) ==
  [t EXCEPT !.ruleBased =
     IF continuation(t) THEN ruleBasedReformulate(query, t.state.search.baseQuery)
     ELSE NoResult]

\* the three branches of STEP 4; tier 2 is called when tier 1 returned null
withReformulated(t, query, tier2) ==
  [t EXCEPT
     !.reformulated =
        IF t.detectNew THEN newSearchQuery(query, t.intent)
        ELSE IF ~continuation(t) THEN firstQuery(query, t.intent)
        ELSE reformulate(query, t.state.search.baseQuery, tier2).result,
     !.reformulatorCalls = IF continuation(t) THEN 1 ELSE 0,
     !.tier2Calls =
        IF continuation(t)
        THEN reformulate(query, t.state.search.baseQuery, tier2).llmCalls
        ELSE 0]

withBaseQuery(t, query) ==
  [t EXCEPT !.state = updateBaseQuery(t.state, query, t.intent, continuation(t))]

\* STEP 5
withFilters(t) == [t EXCEPT !.state = updateFilters(t.state, t.intent)]

\* STEP 6: the call of the search service
withSearchCall(t) ==
  [t EXCEPT
     !.terminal   = "dispatch",
     !.searchCalls = 1,
     !.searchArgs = [query |-> t.reformulated.query, n |-> 10,
                     filters |-> t.state.filters, searchType |-> "auto"]]

\* the search service called with the filters as they were before STEP 5
beforeSearchCallFirst(t, query, tier2) ==
  withFilters(withSearchCall(withBaseQuery(
    withReformulated(withRuleBased(withDetectNew(withCurrentBaseQuery(t, query),
                                                 query), query), query, tier2),
    query)))

\* STEPS 4-5 of callAgent, up to the call of the search service
beforeSearch(t, query, tier2) ==
  withSearchCall(withFilters(withBaseQuery(
    withReformulated(withRuleBased(withDetectNew(withCurrentBaseQuery(t, query),
                                                 query), query), query, tier2),
    query)))

\* the state after SET_SEARCH, SET_LAST_INTENT and ADD_MESSAGE
searchStored(s, searchQuery, searchResult, query) ==
  AddMessage(SetLastIntent(SetSearch(s, searchQuery, s.search.baseQuery,
                                     searchResult.products, searchResult.searchType),
                           "search", ""),
             "user", query)

\* a failure of the search service answered as a search that found nothing
searchAnsweredEmptyOnFailure(t, query, searchResult) ==
  [t EXCEPT
     !.state = searchStored(t.state, t.reformulated.query,
                            [searchResult EXCEPT !.products = <<>>, !.count = 0],
                            query),
     !.terminal = "search", !.setSearchUpdates = 1,
     !.response = [NoResponse EXCEPT
                     !.intro = "generated",
                     !.searchType = searchResult.searchType,
                     !.intent = t.intent.intent,
                     !.detectedLanguage = t.intent.language]]

\* STEPS 6-7 of callAgent, from the answer of the search service; a failure of
\* the service is raised to the caller, with the state as STEP 5 left it
searchAnswered(t, query, searchResult) ==
  IF searchResult.failed
  THEN [t EXCEPT !.terminal = "error", !.raised = TRUE]
  ELSE [t EXCEPT
          !.state = searchStored(t.state, t.reformulated.query, searchResult, query),
          !.terminal = "search", !.setSearchUpdates = 1,
          !.response = [NoResponse EXCEPT
                          !.intro = "generated",
                          !.products = searchResult.products,
                          !.hasProducts = searchResult.count > 0,
                          !.productCount = searchResult.count,
                          !.searchType = searchResult.searchType,
                          !.intent = t.intent.intent,
                          !.detectedLanguage = t.intent.language]]

afterSearch(t, query, sr) == searchAnswered(t, query, SearchOutcomes[sr])

\* STEP 2.5 and SET_LANGUAGE: the turn with its resolved intent
turnStart(s0, extracted, intent) ==
  [NoTurn EXCEPT
     !.state = IF intent.language # "" THEN SetLanguage(s0, intent.language) ELSE s0,
     !.extracted = extracted,
     !.intent = intent]

\* STEPS 2.6-5: the language gate, the special intents, else the search path
fromGate(t, query, tier2) ==
  IF t.intent.language = "id" THEN languageRefusal(t, query)
  ELSE IF isSpecialIntent(t.intent) THEN specialIntent(t, query)
  ELSE beforeSearch(t, query, tier2)

\* STEPS 1-5 of callAgent: a terminal, or the state in which search is called
untilSearch(s0, query, extracted, tier2) ==
  fromGate(turnStart(s0, extracted, resolveFollowUp(s0, query, extracted)), query, tier2)

\* the result of untilSearch, completed by the search when it was called
completed(t, query, sr) ==
  IF t.terminal = "dispatch" THEN afterSearch(t, query, sr) ELSE t

callAgent(s0, query, extracted, tier2, sr) ==
  completed(untilSearch(s0, query, extracted, tier2), query, sr)

\* ------------------------------------------------------------------------
\* The system: threads, messages, the two entry points
\* ------------------------------------------------------------------------

MaxTurns == 2

NoLast ==
  [thread |-> "", message |-> "", existed |-> FALSE, usedFallback |-> FALSE,
   tier2 |-> "none", searchFailed |-> FALSE,
   pre |-> DefaultState, turn |-> NoTurn]

RfIdle == [phase |-> "idle", message |-> "", baseQuery |-> "", out |-> NoResult]

FuIdle ==
  [phase |-> "idle", message |-> "", extracted |-> NoIntent, state |-> DefaultState,
   out |-> NoIntent]

DnIdle ==
  [phase |-> "idle", message |-> "", baseQuery |-> "", intent |-> NoIntent,
   out |-> FALSE]

FmIdle ==
  [phase |-> "idle", filters |-> EmptyFilters, intent |-> NoIntent,
   out |-> EmptyFilters]

FbIdle == [phase |-> "idle", message |-> "", lastQuery |-> "", out |-> NoIntent]

\* the tool-calling agent before any request: no tool instance yet
TaIdle == [instance |-> FALSE, lastSearchResults |-> <<>>, reqs |-> [r \in {} |-> 0]]

NoRequests == [r \in {} |-> NoTurn]

Init ==
  /\ store = [t \in {} |-> DefaultState]
  /\ last = NoLast
  /\ calls = 0
  /\ rf = RfIdle
  /\ fu = FuIdle
  /\ dn = DnIdle
  /\ fm = FmIdle
  /\ fb = FbIdle
  /\ ta = TaIdle
  /\ reqs = NoRequests

\* One call of callAgent.  Each intermediate value is bound once, as the one
\* element of a set; the classifier's answer, the tier-2 outcome and the
\* search outcome are chosen only where the code consults them.
Turn(t, m) ==
  /\ calls' = calls + 1
  /\ \E s0 \in {getOrCreate(store, t)} :
     \E c \in 0..Len(classifierAnswers[m]) :
     \E extracted \in {extract(m, s0.search.query, c)} :
     \E first \in {untilSearch(s0, m, extracted, Tier2Outcomes[1])} :
     \E o \in 1..(IF first.tier2Calls = 1 THEN Len(Tier2Outcomes) ELSE 1) :
     \E turn \in {IF o = 1 THEN first
                  ELSE untilSearch(s0, m, extracted, Tier2Outcomes[o])} :
     \E sr \in 1..(IF turn.terminal = "dispatch" THEN Len(SearchOutcomes) ELSE 1) :
     \E res \in {completed(turn, m, sr)} :
        /\ store' = Put(store, t, res.state)
        /\ last' = [thread |-> t, message |-> m,
                    existed |-> t \in DOMAIN store,
                    usedFallback |-> (c = 0),
                    tier2 |-> IF turn.tier2Calls = 1 THEN Tier2Outcomes[o] ELSE "none",
                    searchFailed |-> (turn.terminal = "dispatch"
                                        /\ SearchOutcomes[sr].failed),
                    pre |-> s0, turn |-> res]
  /\ UNCHANGED <<rf, fu, dn, fm, fb, ta, reqs>>

ProcessMessage(t, m) == calls < MaxTurns /\ Turn(t, m)

resetConversation(t) ==
  /\ store' = [x \in DOMAIN store \ {t} |-> store[x]]
  /\ last' = [NoLast EXCEPT !.thread = t, !.turn.terminal = "reset"]
  /\ UNCHANGED <<calls, rf, fu, dn, fm, fb, ta, reqs>>

Next ==
  \/ \E t \in Threads, m \in Messages : ProcessMessage(t, m)
  \/ \E t \in Threads : resetConversation(t)

Spec == Init /\ [][Next]_vars

\* ------------------------------------------------------------------------
\* Overlapping calls of callAgent.  A call runs from one await of an external
\* collaborator to the next without interruption; between two awaits another
\* call may run.  The awaits of detectNewSearch and of a reformulate answered
\* by tier 1 wait for no collaborator and are not taken as interruptions.
\* Every stateStore.update applies its command to the state the store holds
\* at that moment; the local variable state of a call holds what its last
\* assigned update, or getOrCreate, returned.
\* ------------------------------------------------------------------------

Requests == {"r1", "r2"}

ConcThreads == {"t1", "t2"}

ConcMessages == {"sofa", "putih", "halo", "iya"}

\* the state of a thread after "sofa" was searched and three products stored
AfterSofa ==
  callAgent(DefaultState, "sofa", classifierAnswers["sofa"][1], Tier2Outcomes[1], 3).state

\* the stores the overlapping calls start from
ConcStores ==
  {[t \in {} |-> DefaultState], [t \in ConcThreads |-> AfterSofa]}

\* last.pre keeps the state every thread starts from
ConcInit ==
  /\ store \in ConcStores
  /\ last = [NoLast EXCEPT !.pre = getOrCreate(store, "t1")]
  /\ calls = 0
  /\ rf = RfIdle
  /\ fu = FuIdle
  /\ dn = DnIdle
  /\ fm = FmIdle
  /\ fb = FbIdle
  /\ ta = TaIdle
  /\ reqs = NoRequests

InFlight(r) == r \in DOMAIN reqs /\ reqs[r].pc \notin {"done", "error"}

\* callAgent up to the await of intentExtractor.extract
StartRequest(r, th, m) ==
  /\ r \notin DOMAIN reqs
  /\ store' = Put(store, th, getOrCreate(store, th))
  /\ reqs' = [x \in DOMAIN reqs \cup {r} |->
                IF x = r
                THEN [pc |-> "extract", thread |-> th, message |-> m,
                      t |-> [NoTurn EXCEPT !.state = getOrCreate(store, th)],
                      startedDuring |-> {y \in DOMAIN reqs : InFlight(y)}]
                ELSE reqs[x]]
  /\ UNCHANGED <<last, calls, rf, fu, dn, fm, fb, ta>>

\* where the call stops next, and its locals there: t1 is the turn after
\* SET_LANGUAGE, tA the same with the new-search check and tier 1 made
afterExtract(t1, tA, m) ==
  IF t1.intent.language # "id" /\ isSpecialIntent(t1.intent)
     /\ ~(t1.intent.intent = "product_info" /\ Len(t1.state.search.results) > 0)
  THEN [pc |-> "generate", t |-> t1]
  ELSE IF t1.intent.language # "id" /\ ~isSpecialIntent(t1.intent)
          /\ continuation(tA) /\ ~tA.ruleBased.definite
  THEN [pc |-> "tier2", t |-> tA]
  ELSE [pc |-> "search", t |-> fromGate(t1, m, Tier2Outcomes[1])]

pcAfter(res) ==
  IF res.pc = "search" /\ res.t.terminal # "dispatch" THEN "done" ELSE res.pc

\* from the answer of extract to the next await or to the return
ExtractReturns(r) ==
  /\ r \in DOMAIN reqs /\ reqs[r].pc = "extract"
  /\ \E m \in {reqs[r].message} :
     \E c \in 0..Len(classifierAnswers[m]) :
     \E extracted \in {extract(m, reqs[r].t.state.search.query, c)} :
     \E t1 \in {turnStart(store[reqs[r].thread], extracted,
                          resolveFollowUp(reqs[r].t.state, m, extracted))} :
     \E tA \in {withRuleBased(withDetectNew(withCurrentBaseQuery(t1, m), m), m)} :
     \E res \in {afterExtract(t1, tA, m)} :
        /\ store' = Put(store, reqs[r].thread, res.t.state)
        /\ reqs' = [reqs EXCEPT ![r].pc = pcAfter(res), ![r].t = res.t]
  /\ UNCHANGED <<last, calls, rf, fu, dn, fm, fb, ta>>

\* the locals after STEP 5: state is reassigned only by an update that is issued
withFiltersOnStore(t, cur) ==
  [t EXCEPT !.state = IF issuesFilterUpdate(t.intent)
                      THEN updateFilters(cur, t.intent) ELSE t.state]

\* from the answer of tier 2 to the await of the search service
Tier2Returns(r) ==
  /\ r \in DOMAIN reqs /\ reqs[r].pc = "tier2"
  /\ \E o \in 1..Len(Tier2Outcomes) :
     \E tR \in {withReformulated(reqs[r].t, reqs[r].message, Tier2Outcomes[o])} :
     \E cur \in {store[reqs[r].thread]} :
        /\ store' = Put(store, reqs[r].thread, updateFilters(cur, tR.intent))
        /\ reqs' = [reqs EXCEPT ![r].pc = "search",
                                ![r].t = withSearchCall(withFiltersOnStore(tR, cur))]
  /\ UNCHANGED <<last, calls, rf, fu, dn, fm, fb, ta>>

\* SET_SEARCH with the base query of the local state, SET_LAST_INTENT, ADD_MESSAGE
searchStoredOn(cur, local, searchQuery, searchResult, query) ==
  AddMessage(SetLastIntent(SetSearch(cur, searchQuery, local.search.baseQuery,
                                     searchResult.products, searchResult.searchType),
                           "search", ""),
             "user", query)

\* from the answer of the search service to the return, or to the raise
SearchReturns(r) ==
  /\ r \in DOMAIN reqs /\ reqs[r].pc = "search"
  /\ \E sr \in 1..Len(SearchOutcomes) :
       IF SearchOutcomes[sr].failed
       THEN /\ store' = store
            /\ reqs' = [reqs EXCEPT ![r].pc = "error", ![r].t.terminal = "error",
                                    ![r].t.raised = TRUE]
       ELSE \E after \in {searchStoredOn(store[reqs[r].thread], reqs[r].t.state,
                                          reqs[r].t.reformulated.query,
                                          SearchOutcomes[sr], reqs[r].message)} :
            /\ store' = Put(store, reqs[r].thread, after)
            /\ reqs' = [reqs EXCEPT ![r].pc = "done", ![r].t.terminal = "search",
                                    ![r].t.state = after,
                                    ![r].t.setSearchUpdates = 1]
  /\ UNCHANGED <<last, calls, rf, fu, dn, fm, fb, ta>>

\* from the answer of responseGenerator.generate for a special intent to the return
GenerateReturns(r) ==
  /\ r \in DOMAIN reqs /\ reqs[r].pc = "generate"
  /\ \E after \in {AddMessage(SetLastIntent(store[reqs[r].thread],
                                             reqs[r].t.intent.intent,
                                             reqs[r].t.intent.faq_topic),
                               "user", reqs[r].message)} :
       /\ store' = Put(store, reqs[r].thread, after)
       /\ reqs' = [reqs EXCEPT ![r].pc = "done", ![r].t.terminal = "special"]
  /\ UNCHANGED <<last, calls, rf, fu, dn, fm, fb, ta>>

ConcNext ==
  \/ \E r \in Requests, th \in ConcThreads, m \in ConcMessages : StartRequest(r, th, m)
  \/ \E r \in Requests : ExtractReturns(r)
  \/ \E r \in Requests : Tier2Returns(r)
  \/ \E r \in Requests : SearchReturns(r)
  \/ \E r \in Requests : GenerateReturns(r)

SpecConc == ConcInit /\ [][ConcNext]_vars

\* ------------------------------------------------------------------------
\* One conversation: the messages of Script sent in order to one thread
\* ------------------------------------------------------------------------

ScriptedTurn == calls < Len(Script) /\ Turn("t1", Script[calls + 1])

ScriptNext == ScriptedTurn

SpecScript == Init /\ [][ScriptNext]_vars

\* ------------------------------------------------------------------------
\* The rule-based reformulator on its own: one (message, base query) pair is
\* drawn, and the function is applied to it
\* ------------------------------------------------------------------------

RfInit ==
  /\ store = [t \in {} |-> DefaultState]
  /\ last = NoLast
  /\ calls = 0
  /\ \E m \in RfMessages, b \in RfBases :
       rf = [phase |-> "input", message |-> m, baseQuery |-> b, out |-> NoResult]
  /\ fu = FuIdle
  /\ dn = DnIdle
  /\ fm = FmIdle
  /\ fb = FbIdle
  /\ ta = TaIdle
  /\ reqs = NoRequests

RfApply ==
  /\ rf.phase = "input"
  /\ rf' = [rf EXCEPT !.phase = "done",
                      !.out = ruleBasedReformulate(rf.message, rf.baseQuery)]
  /\ UNCHANGED <<store, last, calls, fu, dn, fm, fb, ta, reqs>>

RfNext == RfApply

SpecRf == RfInit /\ [][RfNext]_vars

\* ------------------------------------------------------------------------
\* The follow-up detection of callAgent on its own: a message, a classified
\* intent and a prior state are drawn, and STEP 2.5 is applied to them
\* ------------------------------------------------------------------------

FuMessages ==
  {"iya", "iyaaa", "ya", "OK", " ok ", "ingin tahu", "ingin", "dong", "yes",
   "iyaaaaaaaaaaaaaaaaaa", "iy", "y", "iya dong", "ok sofa", "yes please",
   "oke deh", "sofa", ""}

FuIntents ==
  {[NoIntent EXCEPT !.intent = i, !.language = l, !.search_query = q] :
     i \in {"unknown", "search", "greeting", "filter_clear"},
     l \in {"en", "id"}, q \in {"", "sofa"}}

FuLastIntents ==
  {<<i, "">> : i \in {"", "search", "greeting", "help", "product_info", "faq_info"}}
  \cup {<<"faq_info", topic>> : topic \in {"location", "hours", "contact"}}

FuStored == <<"p1", "p2", "p3">>

FuStates ==
  {[DefaultState EXCEPT !.lastIntent = li[1], !.lastFaqTopic = li[2],
                        !.search.results = SubSeq(FuStored, 1, n),
                        !.search.resultCount = n] :
     li \in FuLastIntents, n \in {0, 1, 3}}

FuInit ==
  /\ store = [t \in {} |-> DefaultState]
  /\ last = NoLast
  /\ calls = 0
  /\ rf = RfIdle
  /\ dn = DnIdle
  /\ fm = FmIdle
  /\ fb = FbIdle
  /\ ta = TaIdle
  /\ reqs = NoRequests
  /\ \E m \in FuMessages, i \in FuIntents, s \in FuStates :
       fu = [phase |-> "input", message |-> m, extracted |-> i, state |-> s,
             out |-> NoIntent]

FuApply ==
  /\ fu.phase = "input"
  /\ fu' = [fu EXCEPT !.phase = "done",
                      !.out = resolveFollowUp(fu.state, fu.message, fu.extracted)]
  /\ UNCHANGED <<store, last, calls, rf, dn, fm, fb, ta, reqs>>

FuNext == FuApply

SpecFu == FuInit /\ [][FuNext]_vars

\* ------------------------------------------------------------------------
\* detectNewSearch on its own: a message, a base query and an Intent are
\* drawn, and the function is applied to them
\* ------------------------------------------------------------------------

DnMessages == RfMessages \cup DnExtraMessages

\* callAgent passes state.search.baseQuery || intent.search_query || query
DnBases == RfBases \ {""}

DnIntents ==
  {[NoIntent EXCEPT !.intent = i, !.language = "en", !.filters = f] :
     i \in {"search", "filter_add"},
     f \in {EmptyFilters, [category |-> "sofa"], [category |-> "meja"],
            [color |-> "putih"]}}

DnInit ==
  /\ store = [t \in {} |-> DefaultState]
  /\ last = NoLast
  /\ calls = 0
  /\ rf = RfIdle
  /\ fu = FuIdle
  /\ fm = FmIdle
  /\ fb = FbIdle
  /\ ta = TaIdle
  /\ reqs = NoRequests
  /\ \E m \in DnMessages, b \in DnBases, i \in DnIntents :
       dn = [phase |-> "input", message |-> m, baseQuery |-> b, intent |-> i,
             out |-> FALSE]

DnApply ==
  /\ dn.phase = "input"
  /\ dn' = [dn EXCEPT !.phase = "done",
                      !.out = detectNewSearch(dn.message, dn.baseQuery, dn.intent)]
  /\ UNCHANGED <<store, last, calls, rf, fu, fm, fb, ta, reqs>>

DnNext == DnApply

SpecDn == DnInit /\ [][DnNext]_vars

\* ------------------------------------------------------------------------
\* The tool-calling agent (agent.ts): callAgent with the module-level
\* productSearchToolInstance, whose lastSearchResults every request shares.
\* A request is interrupted only where it awaits: the model, the search
\* inside the tool, and the end of the graph run.
\* ------------------------------------------------------------------------

TaRequests == {"r1", "r2"}

TaThreads == {"t1", "t2"}

MaxToolCalls == 2

\* what productSearch.search can return to the tool for request r
TaSearchResults(r) == {<<>>, <<r \o "-p1">>, <<r \o "-p1", r \o "-p2">>}

\* the errors the model call can raise: rate limit, authentication, others
TaErrors ==
  {[status |-> 429, message |-> "Rate limit reached"],
   [status |-> 401, message |-> "Invalid API Key"],
   [status |-> 500, message |-> "Internal server error"],
   [status |-> 0,   message |-> "fetch failed"]}

TaNoError == [status |-> 0, message |-> ""]

\* a request: where it is, what its own tool calls returned last (ownLast,
\* kept for the claims), whether another request wrote the shared results
\* while it ran (disturbed, kept for the claims), and how it ended
TaNoRequest ==
  [pc |-> "idle", thread |-> "", invokes |-> 0, toolCalls |-> 0, ownLast |-> <<>>,
   disturbed |-> FALSE, cause |-> TaNoError, raised |-> "", products |-> <<>>,
   hasProducts |-> FALSE, productCount |-> 0]

TaInFlight(q) == q.pc \in {"agent", "tools", "final"}

\* the other requests in flight see the shared results written by r
TaDisturbOthers(rs, r) ==
  [x \in DOMAIN rs |->
     IF x # r /\ TaInFlight(rs[x]) THEN [rs[x] EXCEPT !.disturbed = TRUE] ELSE rs[x]]

UnavailableMessage == "Service temporarily unavailable. Please try again in a minute."

\* the catch of callAgent: the message of the error it throws
taCatch(error) ==
  IF error.status = 429 THEN UnavailableMessage
  ELSE "Agent failed: " \o error.message

\* routeAfterAgent: to the tools when the model asked for a tool call
routeAfterAgent(hasToolCalls) == IF hasToolCalls THEN "tools" ELSE "final"

TaInit ==
  /\ store = [t \in {} |-> DefaultState]
  /\ last = NoLast
  /\ calls = 0
  /\ rf = RfIdle
  /\ fu = FuIdle
  /\ dn = DnIdle
  /\ fm = FmIdle
  /\ fb = FbIdle
  /\ reqs = NoRequests
  /\ ta = [instance |-> FALSE, lastSearchResults |-> <<>>,
           reqs |-> [r \in TaRequests |-> TaNoRequest]]

\* callAgent up to app.invoke: the instance is created on the first call,
\* clearResults() empties the shared results, the graph run begins
TaStart(r, th) ==
  /\ ta.reqs[r].pc = "idle"
  /\ ta' = [instance |-> TRUE,
            lastSearchResults |-> <<>>,
            reqs |-> [TaDisturbOthers(ta.reqs, r) EXCEPT
                        ![r] = [@ EXCEPT !.pc = "agent", !.thread = th,
                                         !.invokes = 1]]]
  /\ UNCHANGED <<store, last, calls, rf, fu, dn, fm, fb, reqs>>

\* the agent node: model.invoke answers with a tool call or with the final text
TaModelAnswers(r, hasToolCalls) ==
  /\ ta.reqs[r].pc = "agent"
  /\ hasToolCalls => ta.reqs[r].toolCalls < MaxToolCalls
  /\ ta' = [ta EXCEPT !.reqs[r].pc = routeAfterAgent(hasToolCalls)]
  /\ UNCHANGED <<store, last, calls, rf, fu, dn, fm, fb, reqs>>

\* model.invoke rejects: the error leaves app.invoke and reaches the catch,
\* which throws its own error to the caller
TaModelFails(r, error) ==
  /\ ta.reqs[r].pc = "agent"
  /\ ta' = [ta EXCEPT !.reqs[r].pc = "raised",
                      !.reqs[r].cause = error,
                      !.reqs[r].raised = taCatch(error)]
  /\ UNCHANGED <<store, last, calls, rf, fu, dn, fm, fb, reqs>>

\* the search_products tool: the search answers and the tool stores its
\* products in the shared lastSearchResults
TaToolReturns(r, products) ==
  /\ ta.reqs[r].pc = "tools"
  /\ ta' = [ta EXCEPT
              !.lastSearchResults = products,
              !.reqs = [TaDisturbOthers(ta.reqs, r) EXCEPT
                          ![r] = [@ EXCEPT !.pc = "agent",
                                           !.toolCalls = @ + 1,
                                           !.ownLast = products]]]
  /\ UNCHANGED <<store, last, calls, rf, fu, dn, fm, fb, reqs>>

\* after app.invoke: getLastResults() and the response
TaReturns(r) ==
  /\ ta.reqs[r].pc = "final"
  /\ ta' = [ta EXCEPT
              !.reqs[r].pc = "done",
              !.reqs[r].products = ta.lastSearchResults,
              !.reqs[r].hasProducts = Len(ta.lastSearchResults) > 0,
              !.reqs[r].productCount = Len(ta.lastSearchResults)]
  /\ UNCHANGED <<store, last, calls, rf, fu, dn, fm, fb, reqs>>

TaNext ==
  \/ \E r \in TaRequests, th \in TaThreads : TaStart(r, th)
  \/ \E r \in TaRequests, h \in BOOLEAN : TaModelAnswers(r, h)
  \/ \E r \in TaRequests, e \in TaErrors : TaModelFails(r, e)
  \/ \E r \in TaRequests : \E p \in TaSearchResults(r) : TaToolReturns(r, p)
  \/ \E r \in TaRequests : TaReturns(r)

SpecTool == TaInit /\ [][TaNext]_vars

\* ------------------------------------------------------------------------
\* A search followed by two affirmative replies, on one thread
\* ------------------------------------------------------------------------

AffirmScript == <<"sofa", "iya", "iya">>

AffirmTurn == calls < Len(AffirmScript) /\ Turn("t1", AffirmScript[calls + 1])

AffirmNext == AffirmTurn

SpecAffirm == Init /\ [][AffirmNext]_vars

\* ------------------------------------------------------------------------
\* The filter update of STEP 5 on its own: filter maps a thread can hold
\* (every value was once an Intent's truthy value) and the filters of an Intent
\* ------------------------------------------------------------------------

FmStored ==
  {EmptyFilters, [color |-> "hitam"], [priceMin |-> 100],
   [priceMin |-> 100, priceMax |-> 900],
   [category |-> "sofa", color |-> "hitam", brand |-> "ikea"],
   [material |-> "kayu", priceMax |-> 900]}

FmIntentFilters ==
  {EmptyFilters, [color |-> "putih"], [color |-> ""], [price_min |-> 0],
   [price_min |-> 0, price_max |-> 0], [price_min |-> 200], [price_max |-> 500],
   [color |-> "putih", price_min |-> 0, price_max |-> 500],
   [category |-> "meja", material |-> "kulit", brand |-> "informa"]}

FmIntents ==
  {[NoIntent EXCEPT !.intent = i, !.language = "en", !.filters = f] :
     i \in {"search", "filter_add", "filter_clear"}, f \in FmIntentFilters}

FmInit ==
  /\ store = [t \in {} |-> DefaultState]
  /\ last = NoLast
  /\ calls = 0
  /\ rf = RfIdle
  /\ fu = FuIdle
  /\ dn = DnIdle
  /\ fb = FbIdle
  /\ ta = TaIdle
  /\ reqs = NoRequests
  /\ \E f \in FmStored, i \in FmIntents :
       fm = [phase |-> "input", filters |-> f, intent |-> i, out |-> EmptyFilters]

FmApply ==
  /\ fm.phase = "input"
  /\ fm' = [fm EXCEPT
              !.phase = "done",
              !.out = updateFilters([DefaultState EXCEPT !.filters = fm.filters],
                                    fm.intent).filters]
  /\ UNCHANGED <<store, last, calls, rf, fu, dn, fb, ta, reqs>>

FmNext == FmApply

SpecFm == FmInit /\ [][FmNext]_vars

\* ------------------------------------------------------------------------
\* fallbackIntent on its own: every known message, with and without a last query
\* ------------------------------------------------------------------------

FbMessages == KnownMessages

FbLastQueries == {"", "sofa"}

FbInit ==
  /\ store = [t \in {} |-> DefaultState]
  /\ last = NoLast
  /\ calls = 0
  /\ rf = RfIdle
  /\ fu = FuIdle
  /\ dn = DnIdle
  /\ fm = FmIdle
  /\ ta = TaIdle
  /\ reqs = NoRequests
  /\ \E m \in FbMessages, q \in FbLastQueries :
       fb = [phase |-> "input", message |-> m, lastQuery |-> q, out |-> NoIntent]

FbApply ==
  /\ fb.phase = "input"
  /\ fb' = [fb EXCEPT !.phase = "done",
                      !.out = fallbackIntent(fb.message, fb.lastQuery)]
  /\ UNCHANGED <<store, last, calls, rf, fu, dn, fm, ta, reqs>>

FbNext == FbApply

SpecFb == FbInit /\ [][FbNext]_vars

\* ------------------------------------------------------------------------
\* Properties
\* ------------------------------------------------------------------------

\* a message has just been processed for thread last.thread
Turned == last.turn.terminal \in {"refusal", "special", "product_info", "search", "error"}

\* the thread's state before and after the turn just processed
Pre == last.pre

Post == store[last.thread]

\* the turn called the search service
Dispatched == last.turn.searchCalls = 1

SameFilters(f, g) ==
  /\ DOMAIN f = DOMAIN g
  /\ \A k \in DOMAIN f : f[k] = g[k]

\* C1: in every state of every thread, search.resultCount is the number of
\* entries of search.results, also in the state left by a SET_SEARCH update.
C1_ResultCountIsLength ==
  /\ \A t \in DOMAIN store :
       store[t].search.resultCount = Len(store[t].search.results)
  /\ (Turned /\ last.turn.setSearchUpdates > 0) =>
       last.turn.state.search.resultCount = Len(last.turn.state.search.results)

\* a SET_SEARCH has replaced three stored products by four
C1_Witness ==
  /\ Turned /\ last.turn.setSearchUpdates = 1
  /\ Pre.search.resultCount = 3
  /\ Len(Post.search.results) = 4

\* C2: search.baseQuery changes only on a turn that reaches the search step
\* with no base query stored (first search) or with the new-search check true;
\* on a continuation turn it is after the turn what it was before.
C2_BaseQueryStable ==
  Turned =>
    /\ (Post.search.baseQuery # Pre.search.baseQuery) =>
         (Dispatched /\ (Pre.search.baseQuery = "" \/ last.turn.detectNew))
    /\ (Dispatched /\ Pre.search.baseQuery # "" /\ ~last.turn.detectNew) =>
         Post.search.baseQuery = Pre.search.baseQuery

\* a continuation turn whose reformulated query differs from the base query
C2_Witness ==
  /\ Turned /\ last.turn.terminal = "search"
  /\ Pre.search.baseQuery = "sofa" /\ ~last.turn.detectNew
  /\ last.turn.reformulated.isContinuation
  /\ Post.search.query = "sofa putih"
  /\ Post.search.baseQuery = "sofa"

\* C3: on a turn whose resolved intent is not filter_clear, every filter key
\* present before the turn is present after it.
C3_FiltersMonotone ==
  (Turned /\ last.turn.intent.intent # "filter_clear") =>
    DOMAIN Pre.filters \subseteq DOMAIN Post.filters

\* a new-search turn that keeps the stored color and adds two keys
C3_Witness ==
  /\ Turned /\ last.turn.terminal = "search" /\ last.turn.detectNew
  /\ DOMAIN Pre.filters = {"color"}
  /\ DOMAIN Post.filters = {"color", "category", "material"}

\* the (state key, value) pairs the Intent's truthy filters give
IntentFilterKeys(f) ==
  {filterFields[i][2] : i \in {j \in 1..Len(filterFields) :
      /\ filterFields[j][1] \in DOMAIN f
      /\ isTruthy(filterFields[j][1], f[filterFields[j][1]])}}

\* C4 as stated: on a turn resolved to filter_clear no key/value pair set
\* before survives, and with no Intent filters the map is empty at dispatch
\* and after the turn.
C4_ClearEmptiesMap ==
  (Turned /\ last.turn.intent.intent = "filter_clear") =>
    /\ \A k \in DOMAIN Pre.filters \cap DOMAIN Post.filters :
         Post.filters[k] # Pre.filters[k]
    /\ (IntentFilterKeys(last.turn.intent.filters) = {}) =>
         /\ DOMAIN Post.filters = {}
         /\ Dispatched => DOMAIN last.turn.searchArgs.filters = {}

\* C4 amended: when a turn resolved to filter_clear passes the language gate,
\* the map sent to search and the map after the turn hold exactly the Intent's
\* truthy filters, so they are empty when the Intent carries none.
C4_ClearThenIntentFilters ==
  (Turned /\ last.turn.intent.intent = "filter_clear"
          /\ last.turn.intent.language # "id") =>
    /\ Dispatched
    /\ DOMAIN Post.filters = IntentFilterKeys(last.turn.intent.filters)
    /\ \A i \in 1..Len(filterFields) :
         filterFields[i][2] \in DOMAIN Post.filters =>
           Post.filters[filterFields[i][2]] = last.turn.intent.filters[filterFields[i][1]]
    /\ SameFilters(last.turn.searchArgs.filters, Post.filters)

\* a filter_clear turn that empties a map holding a color
C4_Witness ==
  /\ Turned /\ last.turn.intent.intent = "filter_clear"
  /\ last.turn.terminal = "search"
  /\ DOMAIN Pre.filters # {}
  /\ DOMAIN Post.filters = {}

\* a single category word of the reformulator's lexicon
IsCategoryWord(b) == InSeq(b, rfCategories) /\ Len(Words(b)) = 1

\* exactly one color, material or price-descriptor word of the lexicons
IsAttributeWord(m) == InSeq(m, colors) \/ InSeq(m, materials) \/ InSeq(m, priceRefs)

\* C5 as stated: for a base query that is a single category word and a message
\* that is exactly one attribute word, tier 1 returns base query, a space and
\* the word, with isContinuation true and isNewSearch false.
C5_AttributeWordContinues ==
  (rf.phase = "done" /\ IsCategoryWord(rf.baseQuery) /\ IsAttributeWord(rf.message)) =>
    /\ rf.out.definite
    /\ rf.out.query = rf.baseQuery \o " " \o rf.message
    /\ rf.out.isContinuation
    /\ ~rf.out.isNewSearch

\* C5, the part that holds: the same for every attribute word in which no
\* category word other than the base query occurs; "sofa" and "putih" give
\* "sofa putih".
C5_ContinuesUnlessCategoryInside ==
  (rf.phase = "done" /\ IsCategoryWord(rf.baseQuery) /\ IsAttributeWord(rf.message)
     /\ \A i \in 1..Len(rfCategories) :
          Includes(rf.message, rfCategories[i]) => rfCategories[i] = rf.baseQuery) =>
    /\ rf.out.definite
    /\ rf.out.query = rf.baseQuery \o " " \o rf.message
    /\ rf.out.isContinuation
    /\ ~rf.out.isNewSearch

\* tier 1 has turned "sofa" and "putih" into the continuation "sofa putih"
C5_Witness ==
  /\ rf.phase = "done" /\ rf.baseQuery = "sofa" /\ rf.message = "putih"
  /\ rf.out.query = "sofa putih" /\ rf.out.isContinuation

\* C6 as stated: with base query "sofa" stored, the message "ada meja kayu" is
\* a new search: isNewSearch is true, the base query is replaced, and the query
\* sent to the search service is the raw message.
C6_MejaKayuIsNewSearchRaw ==
  (Turned /\ last.message = "ada meja kayu" /\ Pre.search.baseQuery = "sofa") =>
    /\ last.turn.reformulated.isNewSearch
    /\ Post.search.baseQuery # "sofa"
    /\ Dispatched
    /\ last.turn.searchArgs.query = "ada meja kayu"

\* C6 amended: when that turn passes the language gate, the new-search check
\* is true, the base query becomes the Intent's search_query, or the raw
\* message when the Intent has none, and that same text is sent to search.
C6_MejaKayuIsNewSearch ==
  (Turned /\ last.message = "ada meja kayu" /\ Pre.search.baseQuery = "sofa"
          /\ last.turn.intent.language # "id") =>
    /\ Dispatched
    /\ last.turn.detectNew
    /\ last.turn.reformulated.isNewSearch
    /\ last.turn.reformulatorCalls = 0
    /\ Post.search.baseQuery = orElse(last.turn.intent.search_query, "ada meja kayu")
    /\ last.turn.searchArgs.query = Post.search.baseQuery

\* "ada meja kayu" after "sofa", classified without a search_query: the raw
\* message is the new base query and the query searched
C6_Witness ==
  /\ Turned /\ last.message = "ada meja kayu" /\ Pre.search.baseQuery = "sofa"
  /\ last.turn.terminal = "search"
  /\ last.turn.intent.search_query = ""
  /\ Post.search.baseQuery = "ada meja kayu"
  /\ Post.search.query = "ada meja kayu"

\* the turn's resolved intent is greeting, help, faq_info or product_info
ResolvedSpecial ==
  last.turn.intent.intent \in {"greeting", "help", "faq_info", "product_info"}

\* C7 as stated: "halo" resolves to greeting, the response reports greeting
\* with zero products and search is not invoked; the same for every message
\* resolved to greeting, help, faq_info or product_info.
C7_SpecialIntentsZeroProducts ==
  /\ (Turned /\ last.message = "halo") =>
       /\ last.turn.intent.intent = "greeting"
       /\ last.turn.response.intent = "greeting"
       /\ last.turn.response.products = <<>>
       /\ last.turn.searchCalls = 0
  /\ (Turned /\ ResolvedSpecial) =>
       /\ last.turn.response.intent = last.turn.intent.intent
       /\ last.turn.response.products = <<>>
       /\ last.turn.searchCalls = 0

\* C7 amended: a message resolved to greeting, help, faq_info or product_info
\* ("halo" resolves to greeting) never invokes search and leaves search as it
\* was; with language "id" the response is the refusal, reporting
\* language_unsupported; otherwise it reports the intent, with zero products
\* except for product_info, which returns the first three stored products.
C7_SpecialIntentsNoSearch ==
  /\ (Turned /\ last.message = "halo") => last.turn.intent.intent = "greeting"
  /\ (Turned /\ ResolvedSpecial) =>
       /\ last.turn.searchCalls = 0
       /\ last.turn.reformulatorCalls = 0
       /\ Post.search = Pre.search
       /\ last.turn.response.intent =
            IF last.turn.intent.language = "id" THEN "language_unsupported"
            ELSE last.turn.intent.intent
       /\ last.turn.response.products =
            IF last.turn.intent.intent = "product_info" /\ last.turn.intent.language # "id"
            THEN firstN(Pre.search.results, 3) ELSE <<>>

\* "halo" answered as a greeting while products are stored
C7_Witness ==
  /\ Turned /\ last.message = "halo" /\ last.turn.terminal = "special"
  /\ last.turn.response.intent = "greeting"
  /\ Pre.search.resultCount > 0

\* C8 as stated: with lastIntent "search" and resultCount 3, "iya" resolves to
\* product_info, and the response returns the three stored products with no
\* call to search and search.results unchanged.
C8_IyaAfterSearch ==
  (Turned /\ last.message = "iya" /\ Pre.lastIntent = "search"
          /\ Pre.search.resultCount = 3) =>
    /\ last.turn.intent.intent = "product_info"
    /\ last.turn.response.products = firstN(Pre.search.results, 3)
    /\ last.turn.searchCalls = 0
    /\ Post.search.results = Pre.search.results

\* C8 amended: the same when the classifier's intent for "iya" is unknown and
\* its language is supported.
C8_IyaUnknownAfterSearch ==
  (Turned /\ last.message = "iya" /\ Pre.lastIntent = "search"
          /\ Pre.search.resultCount = 3
          /\ last.turn.extracted.intent = "unknown"
          /\ last.turn.extracted.language # "id") =>
    /\ last.turn.intent.intent = "product_info"
    /\ last.turn.response.intent = "product_info"
    /\ last.turn.response.products = firstN(Pre.search.results, 3)
    /\ Len(last.turn.response.products) = 3
    /\ last.turn.searchCalls = 0
    /\ Post.search = Pre.search

\* "iya" after a search that stored three products, answered with them
C8_Witness ==
  /\ Turned /\ last.message = "iya" /\ last.turn.terminal = "product_info"
  /\ Pre.lastIntent = "search" /\ Pre.search.resultCount = 3
  /\ last.turn.response.products = <<"p1", "p2", "p3">>

\* C10: when the resolved language is "id", the turn returns the fixed refusal
\* with zero products and raises nothing; search and the reformulator are not
\* invoked; filters, search and lastIntent are unchanged; the user message is
\* appended to the message log.
C10_LanguageRefusal ==
  (Turned /\ last.turn.intent.language = "id") =>
    /\ last.turn.terminal = "refusal"
    /\ last.turn.response.intro = "refusal"
    /\ last.turn.response.intent = "language_unsupported"
    /\ last.turn.response.products = <<>>
    /\ last.turn.response.productCount = 0
    /\ ~last.turn.raised
    /\ last.turn.searchCalls = 0
    /\ last.turn.reformulatorCalls = 0
    /\ SameFilters(Post.filters, Pre.filters)
    /\ Post.search = Pre.search
    /\ Post.lastIntent = Pre.lastIntent
    /\ Post.lastFaqTopic = Pre.lastFaqTopic
    /\ Post.messages = Append(Pre.messages, [role |-> "user", content |-> last.message])

\* a refused message on a thread that holds a filter and search results
C10_Witness ==
  /\ Turned /\ last.turn.terminal = "refusal"
  /\ DOMAIN Pre.filters # {}
  /\ Pre.search.resultCount > 0
  /\ Len(Post.messages) = 2

\* the messages of FuMessages that are, trimmed, one affirmative token of
\* fewer than 20 characters
ShortAffirmatives ==
  {"iya", "iyaaa", "ya", "OK", " ok ", "ingin tahu", "ingin", "dong", "yes"}

\* C11: the intent used after follow-up detection differs from the classified
\* intent only when the whole message is a short affirmative token and the
\* classified intent is "unknown"; otherwise it is the classified intent.
C11_ReplacedOnlyOnAffirmativeUnknown ==
  fu.phase = "done" =>
    (fu.out # fu.extracted =>
       (fu.message \in ShortAffirmatives /\ fu.extracted.intent = "unknown"))

\* " ok ", classified unknown, has been replaced
C11_Witness ==
  /\ fu.phase = "done" /\ fu.message = " ok "
  /\ fu.extracted.intent = "unknown"
  /\ fu.out.intent = "help"

\* C12: when the follow-up detection fires, the resolved intent is faq_info
\* with topic hours after faq_info/location, else product_info after a search
\* with resultCount > 0, else help; it keeps the classified language.
C12_FollowUpTable ==
  (fu.phase = "done" /\ fu.message \in ShortAffirmatives
     /\ fu.extracted.intent = "unknown") =>
    /\ fu.out.language = fu.extracted.language
    /\ fu.out.intent =
         IF fu.state.lastIntent = "faq_info" /\ fu.state.lastFaqTopic = "location"
         THEN "faq_info"
         ELSE IF fu.state.lastIntent = "search" /\ fu.state.search.resultCount > 0
         THEN "product_info"
         ELSE "help"
    /\ fu.out.faq_topic = IF fu.out.intent = "faq_info" THEN "hours" ELSE ""

\* "iya" after the FAQ answer about the location resolves to the opening hours
C12_Witness ==
  /\ fu.phase = "done" /\ fu.message = "iya"
  /\ fu.state.lastIntent = "faq_info" /\ fu.state.lastFaqTopic = "location"
  /\ fu.out.intent = "faq_info" /\ fu.out.faq_topic = "hours"

\* C13: when the classifier call fails, the extracted intent is the one the
\* fallback rules compute from the message and the last query, the turn goes
\* on to one of its terminals, and nothing is raised unless the search
\* service fails.
C13_ClassifierFailureFallsBack ==
  (Turned /\ last.usedFallback) =>
    /\ last.turn.extracted = fallbackIntent(last.message, Pre.search.query)
    /\ (last.message = "sofa" /\ Pre.search.query = "") =>
         /\ last.turn.extracted.intent = "search"
         /\ last.turn.extracted.search_query = "sofa"
         /\ last.turn.extracted.language = "en"
    /\ last.turn.raised <=> last.searchFailed
    /\ Len(Post.messages) = Len(Pre.messages) + (IF last.turn.raised THEN 0 ELSE 1)

\* the classifier failed on "sofa" and the search of "sofa" was answered
C13_Witness ==
  /\ Turned /\ last.usedFallback /\ last.message = "sofa"
  /\ last.turn.terminal = "search" /\ ~last.turn.raised
  /\ last.turn.searchArgs.query = "sofa"
  /\ last.turn.response.productCount = 3

\* C14: when the tier-2 call fails, reformulate returns the raw message with
\* isContinuation false, isNewSearch false and no detected attributes, that
\* message is the query searched, and nothing is raised unless the search
\* service fails.
C14_Tier2FailureReturnsRaw ==
  (Turned /\ last.tier2 = "fail") =>
    /\ last.turn.reformulated.query = last.message
    /\ ~last.turn.reformulated.isContinuation
    /\ ~last.turn.reformulated.isNewSearch
    /\ last.turn.reformulated.detectedAttributes = NoAttributes
    /\ last.turn.searchArgs.query = last.message
    /\ last.turn.raised <=> last.searchFailed

\* tier 2 failed on "iya" with base query "sofa", and "iya" was searched
C14_Witness ==
  /\ Turned /\ last.tier2 = "fail" /\ last.message = "iya"
  /\ Pre.search.baseQuery = "sofa"
  /\ last.turn.terminal = "search"
  /\ Post.search.query = "iya"

\* C15: when the search service fails, the failure is raised to the caller:
\* there is no response, no SET_SEARCH is applied, and the stored query,
\* results and count are those of before the turn.
C15_SearchFailurePropagates ==
  (Turned /\ last.searchFailed) =>
    /\ last.turn.raised
    /\ last.turn.response = NoResponse
    /\ last.turn.setSearchUpdates = 0
    /\ Post.search.query = Pre.search.query
    /\ Post.search.results = Pre.search.results
    /\ Post.search.resultCount = Pre.search.resultCount
    /\ Post.search.searchType = Pre.search.searchType

\* the search failed while three products of an earlier search are stored
C15_Witness ==
  /\ Turned /\ last.searchFailed /\ last.turn.raised
  /\ Pre.search.resultCount = 3
  /\ Post.search.results = <<"p1", "p2", "p3">>

\* C18: a thread's state leaves the store only by resetConversation of that
\* thread; after every processed message, whichever terminal it reached, the
\* thread has a state; and a message for a thread without a state (the first
\* one, or the first after a reset) starts from the default state, with empty
\* filters and empty search.
C18_Lifecycle ==
  [][/\ \A t \in DOMAIN store \ DOMAIN store' :
          last'.turn.terminal = "reset" /\ last'.thread = t
     /\ (last'.turn.terminal # "reset") =>
          /\ last'.thread \in DOMAIN store'
          /\ (last'.thread \notin DOMAIN store) =>
               /\ ~last'.existed
               /\ last'.pre = DefaultState
               /\ DOMAIN last'.pre.filters = {}
               /\ last'.pre.search.query = "" /\ last'.pre.search.baseQuery = ""
               /\ last'.pre.search.results = <<>>
          /\ (last'.thread \in DOMAIN store) => last'.pre = store[last'.thread]
    ]_vars

\* the second message found no state, the thread having been reset, and the
\* thread has a state although the search failed
C18_Witness ==
  /\ Turned /\ calls = 2 /\ ~last.existed
  /\ last.turn.terminal = "error"
  /\ last.thread \in DOMAIN store

\* a category term occurs in the lower-cased message and not in the
\* lower-cased base query
NewCategoryMentioned(message, baseQuery) ==
  \E i \in 1..Len(dnCategories) :
     /\ Includes(ToLower(message), dnCategories[i])
     /\ ~Includes(ToLower(baseQuery), dnCategories[i])

\* C20: detectNewSearch is true whenever the lower-cased message contains a
\* category term the lower-cased base query does not contain, whatever the
\* Intent, the trigger phrases and the attribute words in the message.
C20_NewCategoryIsNewSearch ==
  (dn.phase = "done" /\ NewCategoryMentioned(dn.message, dn.baseQuery)) => dn.out

\* "kursi kulit hitam", two attribute words and no trigger phrase, on base
\* query "Sofa" with an Intent whose category is sofa: a new search
C20_Witness ==
  /\ dn.phase = "done" /\ dn.message = "kursi kulit hitam" /\ dn.baseQuery = "Sofa"
  /\ dn.intent.filters = [category |-> "sofa"]
  /\ dn.out

\* "kulit" is searched as the third turn, after "sofa" set the base query and
\* "putih" was searched as "sofa putih"
KulitAfterSofaPutih ==
  /\ Turned /\ calls = 3 /\ last.message = "kulit" /\ Dispatched
  /\ Pre.search.baseQuery = "sofa"
  /\ Pre.search.query = "sofa putih"

\* C19 as stated: over the turns "sofa", "putih", "kulit" the query searched
\* after "kulit" keeps the color of the turn before and is "sofa kulit putih".
C19_RefinementIsCumulative ==
  KulitAfterSofaPutih => last.turn.searchArgs.query = "sofa kulit putih"

\* C19, what the code does: the base query is still "sofa", tier 1 appends
\* the attribute of this turn only, and the query searched is "sofa kulit".
C19_OnlyThisTurnsAttribute ==
  KulitAfterSofaPutih =>
    /\ ~last.turn.detectNew
    /\ last.turn.ruleBased.definite
    /\ last.turn.tier2Calls = 0
    /\ last.turn.searchArgs.query = "sofa kulit"
    /\ Post.search.baseQuery = "sofa"

\* the third turn has stored "sofa kulit" as the query searched
C19_Witness ==
  /\ KulitAfterSofaPutih
  /\ last.turn.terminal = "search"
  /\ Post.search.query = "sofa kulit"

\* the states callAgent can leave when it processes m alone from state s
SerialAfter(s, m) ==
  {callAgent(s, m, extract(m, s.search.query, c), Tier2Outcomes[o], sr).state :
     c \in 0..Len(classifierAnswers[m]), o \in 1..Len(Tier2Outcomes),
     sr \in 1..Len(SearchOutcomes)}

\* the states left by processing ma and then mb, one after the other
SerialAfterBoth(s, ma, mb) == UNION {SerialAfter(s1, mb) : s1 \in SerialAfter(s, ma)}

\* the same for every starting state and pair of messages, as (input, states) pairs
SerialTable ==
  {<<x, SerialAfterBoth(x[1], x[2], x[3])>> :
     x \in {DefaultState, AfterSofa} \X ConcMessages \X ConcMessages}

SerialStates(s, ma, mb) ==
  (CHOOSE p \in SerialTable : p[1] = <<s, ma, mb>>)[2]

\* both calls have ended, and they were for the same thread
BothEndedOnOneThread ==
  /\ \A r \in Requests : r \in DOMAIN reqs /\ ~InFlight(r)
  /\ reqs["r1"].thread = reqs["r2"].thread

\* one of the two calls began while the other was under way
Overlapped == reqs["r1"].startedDuring # {} \/ reqs["r2"].startedDuring # {}

\* the thread's state is one that the two messages leave when processed one
\* after the other, in one of the two orders, for some answers of the
\* classifier, of tier 2 and of the search service
FinalStateIsSerial ==
  store[reqs["r1"].thread] \in
    SerialStates(last.pre, reqs["r1"].message, reqs["r2"].message)
    \cup SerialStates(last.pre, reqs["r2"].message, reqs["r1"].message)

\* C16 as stated: when two calls for the same thread overlap, the final state
\* of the thread is the state obtained by processing the two messages one
\* after the other in some order.
C16_OverlapIsSerializable ==
  (BothEndedOnOneThread /\ Overlapped) => FinalStateIsSerial

\* C16, what holds: two calls for the same thread of which the second begins
\* after the first has ended leave a state of the two messages processed one
\* after the other.
C16_CallsInTurnAreSerial ==
  (BothEndedOnOneThread /\ ~Overlapped) => FinalStateIsSerial

\* "putih" was processed after "sofa" had ended, and searched as "sofa putih"
C16_Witness ==
  /\ BothEndedOnOneThread /\ ~Overlapped
  /\ last.pre = DefaultState
  /\ store[reqs["r1"].thread].search.query = "sofa putih"
  /\ Len(store[reqs["r1"].thread].messages) = 2

\* request r has just taken a step
Stepped(r) ==
  /\ r \in DOMAIN reqs'
  /\ (r \notin DOMAIN reqs \/ reqs'[r] # reqs[r])

\* C17: a step that callAgent takes for one thread, under any interleaving of
\* two calls, leaves every other thread as it was: it has a state after the
\* step exactly if it had one before, with the same filters, search,
\* lastIntent, language and messages.
C17_OtherThreadsUntouched ==
  [][\A r \in Requests : Stepped(r) =>
       \A b \in ConcThreads \ {reqs'[r].thread} :
          /\ (b \in DOMAIN store') <=> (b \in DOMAIN store)
          /\ (b \in DOMAIN store) => store'[b] = store[b]
    ]_vars

\* a call for t2 began and ended while a call for t1 was waiting for its
\* search; t1 holds what its own call wrote and t2 what its own call wrote
C17_Witness ==
  /\ \A r \in Requests : r \in DOMAIN reqs
  /\ reqs["r1"].thread = "t1" /\ reqs["r1"].pc = "search"
  /\ reqs["r2"].thread = "t2" /\ reqs["r2"].pc = "done"
  /\ reqs["r2"].startedDuring = {"r1"}
  /\ last.pre = DefaultState
  /\ store["t1"].search.baseQuery = "sofa" /\ store["t1"].messages = <<>>
  /\ store["t2"].search.baseQuery = "" /\ Len(store["t2"].messages) = 1

\* a trigger phrase of the detector occurs in the lower-cased, trimmed message
TriggerPhraseMentioned(message) ==
  \E i \in 1..Len(dnNewSearchKeywords) :
     Includes(Trim(ToLower(message)), dnNewSearchKeywords[i])

\* the Intent carries a category that is not, as text, the lower-cased base query
IntentCategoryDiffers(intent, baseQuery) ==
  /\ "category" \in DOMAIN intent.filters
  /\ intent.filters["category"] # ""
  /\ intent.filters["category"] # ToLower(baseQuery)

AttributeMentioned(message) ==
  \E i \in 1..Len(dnAttributes) :
     Includes(Trim(ToLower(message)), dnAttributes[i])

C22_Tier1IsAuthoritative ==
  (Turned /\ last.turn.reformulatorCalls = 1) =>
    IF ruleBasedReformulate(last.message, Pre.search.baseQuery).definite
    THEN /\ last.turn.reformulated =
              ruleBasedReformulate(last.message, Pre.search.baseQuery)
         /\ last.turn.tier2Calls = 0
         /\ last.tier2 = "none"
    ELSE /\ last.turn.tier2Calls = 1
         /\ last.tier2 # "none"
         /\ last.turn.reformulated =
              llmReformulate(last.message, Pre.search.baseQuery, last.tier2)

\* "putih" on the stored base query "sofa": tier 1 answers "sofa putih" and
\* tier 2 is not asked
C22_Witness ==
  /\ Turned /\ last.message = "putih" /\ Pre.search.baseQuery = "sofa"
  /\ last.turn.reformulatorCalls = 1
  /\ last.turn.ruleBased.definite
  /\ last.turn.reformulated.query = "sofa putih"
  /\ last.turn.tier2Calls = 0

\* tier 1 answered with its new-search result: the raw message, not a
\* continuation, a new search
IsNewSearchResult(out, message) ==
  /\ out.definite /\ out.query = message
  /\ ~out.isContinuation /\ out.isNewSearch

\* the lower-cased, trimmed message begins with a new-search trigger of tier 1
RfTriggerMentioned(message) ==
  \E i \in 1..Len(rfNewSearchKeywords) :
     StartsWith(Trim(ToLower(message)), rfNewSearchKeywords[i])

\* the message names a category that the base query does not name
RfOtherCategoryMentioned(message, baseQuery) ==
  \E i \in 1..Len(rfCategories) :
     /\ Includes(Trim(ToLower(message)), rfCategories[i])
     /\ ~Includes(ToLower(baseQuery), rfCategories[i])

\* the first category of the lexicon that occurs in the message, "" when none
RfFirstCategory(message) == FindIncluded(rfCategories, Trim(ToLower(message)))

\* C23 as stated: tier 1 returns its new-search result if and only if the
\* message carries an explicit new-search trigger and names a category other
\* than the base query's; "sofa hitam" on base query "sofa putih", and any
\* message without a trigger, is not given the new-search result.
C23_NewSearchNeedsTriggerAndCategory ==
  rf.phase = "done" =>
    (IsNewSearchResult(rf.out, rf.message)
       <=> (RfTriggerMentioned(rf.message)
              /\ RfOtherCategoryMentioned(rf.message, rf.baseQuery)))

\* C23, what the code does: tier 1 returns its new-search result if and only
\* if a category term occurs in the message and the first such term is not,
\* as text, the whole lower-cased base query; no trigger is needed.
C23_NewSearchOnAnyCategoryTerm ==
  rf.phase = "done" =>
    (IsNewSearchResult(rf.out, rf.message)
       <=> (RfFirstCategory(rf.message) # ""
              /\ RfFirstCategory(rf.message) # ToLower(rf.baseQuery)))

\* "sofa hitam" on the base query "sofa putih": no trigger, the same category,
\* and tier 1 answers with the new-search result
C23_Witness ==
  /\ rf.phase = "done" /\ rf.baseQuery = "sofa putih" /\ rf.message = "sofa hitam"
  /\ ~RfTriggerMentioned(rf.message)
  /\ ~RfOtherCategoryMentioned(rf.message, rf.baseQuery)
  /\ IsNewSearchResult(rf.out, rf.message)
  /\ rf.out.detectedAttributes.category = "sofa"

\* a color, material or price term occurs in the lower-cased, trimmed message
RfAttributeMatched(message) ==
  \/ IncludesAny(Trim(ToLower(message)), colors)
  \/ IncludesAny(Trim(ToLower(message)), materials)
  \/ IncludesAny(Trim(ToLower(message)), priceRefs)

\* the words of the message that are not filler words
MeaningfulWordCount(message) == Len(SelectNotFiller(Words(Trim(ToLower(message)))))

\* every word of the message is a filler word or an attribute term
OnlyFillerAndAttributes(message) == AllFillerOrAttribute(Words(Trim(ToLower(message))))

IsContinuationResult(out) == out.definite /\ out.isContinuation /\ ~out.isNewSearch

\* the new-search rule of tier 1 answers: the first category term in the
\* message is not the whole lower-cased base query
RfNewCategoryTerm(message, baseQuery) ==
  RfFirstCategory(message) # "" /\ RfFirstCategory(message) # ToLower(baseQuery)

\* C24 as stated: with a non-empty base query tier 1 returns a continuation
\* exactly when an attribute term matched and the message has at most 2
\* meaningful words; an attribute match with more than 2 meaningful words
\* gets no definite result.
C24_ContinuationIffAttributeAndFewWords ==
  (rf.phase = "done" /\ rf.baseQuery # "") =>
    /\ IsContinuationResult(rf.out)
         <=> (RfAttributeMatched(rf.message) /\ MeaningfulWordCount(rf.message) <= 2)
    /\ (RfAttributeMatched(rf.message) /\ MeaningfulWordCount(rf.message) > 2)
         => ~rf.out.definite

\* C24, amended: with a non-empty base query tier 1 returns a continuation
\* exactly when the new-search rule does not answer first, the message does
\* not begin with a new-search trigger, an attribute term matched, and the
\* message has at most 2 meaningful words or consists of filler words and
\* attribute terms only; an attribute match that fails the last test and is
\* not a new search gets no definite result.
C24_ContinuationIffShortOrOnlyAttributes ==
  (rf.phase = "done" /\ rf.baseQuery # "") =>
    /\ IsContinuationResult(rf.out)
         <=> /\ ~RfNewCategoryTerm(rf.message, rf.baseQuery)
             /\ ~RfTriggerMentioned(rf.message)
             /\ RfAttributeMatched(rf.message)
             /\ \/ MeaningfulWordCount(rf.message) <= 2
                \/ OnlyFillerAndAttributes(rf.message)
    /\ (/\ RfAttributeMatched(rf.message)
        /\ MeaningfulWordCount(rf.message) > 2
        /\ ~OnlyFillerAndAttributes(rf.message)
        /\ ~RfNewCategoryTerm(rf.message, rf.baseQuery))
         => ~rf.out.definite

\* "kulit putih murah" on the base query "sofa": three meaningful words, all
\* of them attribute terms, and tier 1 answers with a continuation
C24_Witness ==
  /\ rf.phase = "done" /\ rf.baseQuery = "sofa" /\ rf.message = "kulit putih murah"
  /\ MeaningfulWordCount(rf.message) = 3
  /\ IsContinuationResult(rf.out)
  /\ rf.out.query = "sofa putih kulit murah"

\* the attribute terms of the three lexicons
AttributeTerms ==
  {colors[i] : i \in 1..Len(colors)} \cup {materials[i] : i \in 1..Len(materials)}
    \cup {priceRefs[i] : i \in 1..Len(priceRefs)}

\* the lower-cased base query with every whole-word occurrence of a color,
\* material and price term removed
WithoutAttributeTerms(baseQuery) ==
  RemoveWords(RemoveWords(RemoveWords(ToLower(baseQuery), colors), materials), priceRefs)

\* the attributes tier 1 detects in the message: the first color, material
\* and price term of each lexicon that occurs in it, in that order
ThisTurnsAttributes(message) ==
  AttributeList(FindIncluded(colors, Trim(ToLower(message))),
                FindIncluded(materials, Trim(ToLower(message))),
                FindIncluded(priceRefs, Trim(ToLower(message))))

\* no attribute term that is a word of the base query and does not occur in
\* the message is a word of the result
NoStaleAttribute(query, message, baseQuery) ==
  \A term \in AttributeTerms :
     (InSeq(term, Words(ToLower(baseQuery))) /\ ~Includes(Trim(ToLower(message)), term))
        => ~InSeq(term, Words(query))

\* C25 as stated: the query of a tier-1 continuation is the lower-cased base
\* query with every color, material and price term removed, followed by this
\* turn's attributes in the order color, material, price, joined by single
\* spaces, and no attribute of the base query that the message lacks appears.
C25_CleanedBasePlusAttributes ==
  (rf.phase = "done" /\ IsContinuationResult(rf.out)) =>
    /\ rf.out.query =
         Trim(WithoutAttributeTerms(rf.baseQuery) \o " "
                \o JoinWords(ThisTurnsAttributes(rf.message)))
    /\ NoStaleAttribute(rf.out.query, rf.message, rf.baseQuery)

\* C25, amended: the same, the base query losing also its leading lead-in
\* phrase ("cari", "saya mau", ..., then "yang", "warna", ...) after the
\* attribute terms were removed.
C25_CleanedBaseWithoutLeadIns ==
  (rf.phase = "done" /\ IsContinuationResult(rf.out)) =>
    /\ rf.out.query =
         Trim(Trim(StripLead(StripLead(WithoutAttributeTerms(rf.baseQuery), rfLeadIns),
                             rfLeadIns2))
                \o " " \o JoinWords(ThisTurnsAttributes(rf.message)))
    /\ NoStaleAttribute(rf.out.query, rf.message, rf.baseQuery)

\* "putih" on the base query "cari sofa kulit murah": the old material and
\* price word and the lead-in are gone, the new color is appended
C25_Witness ==
  /\ rf.phase = "done" /\ rf.baseQuery = "cari sofa kulit murah" /\ rf.message = "putih"
  /\ IsContinuationResult(rf.out)
  /\ rf.out.query = "sofa putih"

\* C26 as stated: called with an empty base query, the reformulator returns
\* the raw message with isContinuation false and isNewSearch false for every
\* message, one naming a product category included.
C26_EmptyBaseReturnsRaw ==
  (rf.phase = "done" /\ rf.baseQuery = "") =>
    /\ rf.out.definite /\ rf.out.query = rf.message
    /\ ~rf.out.isContinuation /\ ~rf.out.isNewSearch

\* C26, amended: with an empty base query tier 1 is always definite and
\* returns the raw message with isContinuation false; isNewSearch is true
\* exactly when a category term occurs in the message, and the first such
\* term is then reported as the detected category.
C26_EmptyBaseNewSearchOnCategory ==
  (rf.phase = "done" /\ rf.baseQuery = "") =>
    /\ rf.out.definite /\ rf.out.query = rf.message
    /\ ~rf.out.isContinuation
    /\ rf.out.isNewSearch <=> (RfFirstCategory(rf.message) # "")
    /\ rf.out.detectedAttributes =
         [NoAttributes EXCEPT !.category = RfFirstCategory(rf.message)]

\* "sofa" with no base query: the raw message, marked a new search
C26_Witness ==
  /\ rf.phase = "done" /\ rf.baseQuery = "" /\ rf.message = "sofa"
  /\ rf.out.query = "sofa" /\ ~rf.out.isContinuation
  /\ rf.out.isNewSearch

\* the Intent's search_query, else the raw message
NewBaseValue == orElse(last.turn.intent.search_query, last.message)

\* C27: the base query handed to the new-search check is the stored
\* search.baseQuery when there is one, else the Intent's search_query, else
\* the raw message; when the check answers true, search.baseQuery is set to
\* the new value (search_query, else the raw message), and that value is the
\* query sent to the search service and, once the search has answered, the
\* stored search.query.
C27_BaseQueryDeterminationAndReset ==
  (Turned /\ Dispatched) =>
    /\ last.turn.currentBaseQuery =
         (IF Pre.search.baseQuery # "" THEN Pre.search.baseQuery
          ELSE IF last.turn.intent.search_query # "" THEN last.turn.intent.search_query
          ELSE last.message)
    /\ last.turn.detectNew =
         detectNewSearch(last.message, last.turn.currentBaseQuery, last.turn.intent)
    /\ last.turn.detectNew =>
         /\ Post.search.baseQuery = NewBaseValue
         /\ last.turn.searchArgs.query = NewBaseValue
         /\ last.turn.reformulatorCalls = 0
         /\ last.turn.terminal = "search" => Post.search.query = NewBaseValue

\* "ada meja kayu", classified with search_query "meja kayu", on a thread
\* whose base query is "sofa": the check answers true and "meja kayu" is the
\* new base query, the query searched and the query stored
C27_Witness ==
  /\ Turned /\ Dispatched /\ last.message = "ada meja kayu"
  /\ Pre.search.baseQuery = "sofa"
  /\ last.turn.currentBaseQuery = "sofa"
  /\ last.turn.intent.search_query = "meja kayu"
  /\ last.turn.detectNew
  /\ last.turn.terminal = "search"
  /\ Post.search.baseQuery = "meja kayu"
  /\ last.turn.searchArgs.query = "meja kayu"
  /\ Post.search.query = "meja kayu"

\* the filter map the merge starts from: emptied first on filter_clear
FmBefore == IF fm.intent.intent = "filter_clear" THEN EmptyFilters ELSE fm.filters

\* the Intent carries a value for the field: a non-empty text, a non-zero price
FmPresent(field) ==
  /\ field \in DOMAIN fm.intent.filters
  /\ IF field \in {"price_min", "price_max"}
     THEN fm.intent.filters[field] # 0
     ELSE fm.intent.filters[field] # ""

\* C28: the filter merge overwrites state.filters[k] with the Intent's value
\* for every filter field present in the Intent and leaves every other key
\* as it was; a price_min or price_max of 0 counts as absent, so the stored
\* priceMin or priceMax is kept and no price key with value 0 is ever stored.
C28_FilterMergeOverwritesPresentFields ==
  fm.phase = "done" =>
    /\ \A i \in 1..Len(filterFields) :
         IF FmPresent(filterFields[i][1])
         THEN /\ filterFields[i][2] \in DOMAIN fm.out
              /\ fm.out[filterFields[i][2]] = fm.intent.filters[filterFields[i][1]]
         ELSE /\ filterFields[i][2] \in DOMAIN fm.out
                   <=> filterFields[i][2] \in DOMAIN FmBefore
              /\ filterFields[i][2] \in DOMAIN FmBefore
                   => fm.out[filterFields[i][2]] = FmBefore[filterFields[i][2]]
    /\ DOMAIN fm.out \subseteq {filterFields[i][2] : i \in 1..Len(filterFields)}
    /\ \A k \in DOMAIN fm.out \cap {"priceMin", "priceMax"} : fm.out[k] # 0

\* an Intent with color putih, price_min 0 and price_max 500 merged into the
\* filters priceMin 100, priceMax 900: priceMin is kept, the others are set
C28_Witness ==
  /\ fm.phase = "done" /\ fm.intent.intent = "filter_add"
  /\ fm.filters = [priceMin |-> 100, priceMax |-> 900]
  /\ fm.intent.filters = [color |-> "putih", price_min |-> 0, price_max |-> 500]
  /\ fm.out = [priceMin |-> 100, priceMax |-> 500, color |-> "putih"]

\* a search turn: one that passes the language gate and is not a special intent
SearchTurn == Turned /\ last.turn.intent.language # "id" /\ ~ResolvedSpecial

\* the Intent field of the turn carries a value: a non-empty text, a non-zero price
TurnCarries(field) ==
  /\ field \in DOMAIN last.turn.intent.filters
  /\ IF field \in {"price_min", "price_max"}
     THEN last.turn.intent.filters[field] # 0
     ELSE last.turn.intent.filters[field] # ""

\* the thread's filters when the turn began, emptied if the turn is a filter_clear
FiltersKept ==
  IF last.turn.intent.intent = "filter_clear" THEN EmptyFilters ELSE Pre.filters

\* the filter map f holds the kept filters overwritten by this turn's Intent filters
IsMergedFilterMap(f) ==
  \A i \in 1..Len(filterFields) :
     IF TurnCarries(filterFields[i][1])
     THEN /\ filterFields[i][2] \in DOMAIN f
          /\ f[filterFields[i][2]] = last.turn.intent.filters[filterFields[i][1]]
     ELSE /\ filterFields[i][2] \in DOMAIN f <=> filterFields[i][2] \in DOMAIN FiltersKept
          /\ filterFields[i][2] \in DOMAIN FiltersKept
               => f[filterFields[i][2]] = FiltersKept[filterFields[i][2]]

\* C29: on every search turn the search service is called exactly once, after
\* the filter merge, with the reformulated query, n = 10, mode "auto" and the
\* merged filter map (the thread's filters after any CLEAR_FILTERS of the turn,
\* overwritten by the turn's Intent filters); the filters stored after the
\* turn are the ones that were sent. No other turn calls the service.
C29_SearchDispatchedOnceWithMergedFilters ==
  /\ (Turned /\ ~SearchTurn) => last.turn.searchCalls = 0
  /\ SearchTurn =>
       /\ last.turn.searchCalls = 1
       /\ last.turn.searchArgs.query = last.turn.reformulated.query
       /\ last.turn.searchArgs.n = 10
       /\ last.turn.searchArgs.searchType = "auto"
       /\ IsMergedFilterMap(last.turn.searchArgs.filters)
       /\ SameFilters(Post.filters, last.turn.searchArgs.filters)

\* "putih", classified filter_add with color putih and price_max 500, on a
\* thread that holds the category filter of "sofa": one call, with the query
\* "sofa putih" and the three filters
C29_Witness ==
  /\ SearchTurn /\ last.message = "putih" /\ last.turn.intent.intent = "filter_add"
  /\ SameFilters(Pre.filters, [category |-> "sofa"])
  /\ last.turn.searchCalls = 1
  /\ last.turn.searchArgs.query = "sofa putih"
  /\ SameFilters(last.turn.searchArgs.filters,
                 [category |-> "sofa", color |-> "putih", priceMax |-> 500])
  /\ SameFilters(Post.filters, last.turn.searchArgs.filters)

\* the English color and material words that have an Indonesian canonical form
EnglishColors ==
  {"white", "black", "brown", "red", "blue", "green", "yellow", "gray", "grey"}

EnglishMaterials ==
  {"wood", "leather", "fabric", "metal", "rattan", "plastic", "glass"}

\* the first color and the first material of the lexicons found in the message
FbFirstColor == FindIncluded(fbColors, ToLower(fb.message))

FbFirstMaterial == FindIncluded(fbMaterials, ToLower(fb.message))

\* C30 as stated: the color and material extracted by the fallback are never
\* an English word that has an Indonesian canonical form (white gives putih,
\* black gives hitam, wood gives kayu, leather gives kulit, and so on).
C30_FallbackNormalizesToIndonesian ==
  fb.phase = "done" =>
    /\ "color" \in DOMAIN fb.out.filters => fb.out.filters["color"] \notin EnglishColors
    /\ "material" \in DOMAIN fb.out.filters
         => fb.out.filters["material"] \notin EnglishMaterials

\* C30, what the code does: the word found is normalized only when it is
\* longer than 5 letters (yellow, leather, fabric, rattan, plastic); every
\* shorter English word is stored as it is.
C30_NormalizesLongWordsOnly ==
  fb.phase = "done" =>
    /\ "color" \in DOMAIN fb.out.filters <=> FbFirstColor # ""
    /\ "material" \in DOMAIN fb.out.filters <=> FbFirstMaterial # ""
    /\ FbFirstColor # "" =>
         fb.out.filters["color"] =
           (IF FbFirstColor = "yellow" THEN "kuning" ELSE FbFirstColor)
    /\ FbFirstMaterial # "" =>
         fb.out.filters["material"] =
           (CASE FbFirstMaterial = "leather" -> "kulit"
              [] FbFirstMaterial = "fabric"  -> "kain"
              [] FbFirstMaterial = "rattan"  -> "rotan"
              [] FbFirstMaterial = "plastic" -> "plastik"
              [] OTHER -> FbFirstMaterial)

\* the fallback applied to "white": the color extracted is "white"
C30_Witness ==
  /\ fb.phase = "done" /\ fb.message = "white"
  /\ "color" \in DOMAIN fb.out.filters
  /\ fb.out.filters["color"] = "white"

\* C32 as stated: whenever the query used for a search turn is marked
\* isNewSearch, by the new-search check of callAgent or by the reformulator,
\* search.baseQuery after the turn is that turn's new query.
C32_NewSearchResetsBaseQuery ==
  (Turned /\ last.turn.terminal = "search" /\ last.turn.reformulated.isNewSearch) =>
    Post.search.baseQuery = last.turn.reformulated.query

\* C32, what the code does: the base query is reset when the new-search check
\* of callAgent answers true; a query that the reformulator marks isNewSearch
\* is searched and stored as search.query while search.baseQuery keeps its
\* old value.
C32_ReformulatorNewSearchKeepsBaseQuery ==
  (Turned /\ last.turn.terminal = "search" /\ last.turn.reformulated.isNewSearch) =>
    /\ Post.search.query = last.turn.reformulated.query
    /\ IF last.turn.detectNew
       THEN Post.search.baseQuery = last.turn.reformulated.query
       ELSE /\ last.turn.reformulatorCalls = 1
            /\ Pre.search.baseQuery # ""
            /\ Post.search.baseQuery = Pre.search.baseQuery

\* "tell me more" on the base query "sofa", classified by the fallback rules:
\* tier 2 answers with a new search, and the base query is still "sofa"
C32_Witness ==
  /\ Turned /\ last.turn.terminal = "search" /\ last.message = "tell me more"
  /\ Pre.search.baseQuery = "sofa"
  /\ ~last.turn.detectNew /\ last.tier2 = "new_search"
  /\ last.turn.reformulated.isNewSearch
  /\ last.turn.reformulated.query = "tell me more"
  /\ Post.search.query = "tell me more"
  /\ Post.search.baseQuery = "sofa"

\* the message names no category term and no trigger phrase, and the Intent
\* carries a category that is a word of the base query
SameCategoryRefinement ==
  /\ dn.phase = "done"
  /\ ~IncludesAny(Trim(ToLower(dn.message)), dnCategories)
  /\ ~TriggerPhraseMentioned(dn.message)
  /\ "category" \in DOMAIN dn.intent.filters
  /\ InSeq(dn.intent.filters["category"], Words(ToLower(dn.baseQuery)))

\* C33 as stated: a turn whose message names no category term and no trigger
\* phrase, and whose Intent carries the category the base query already
\* names, is a continuation: the new-search check answers false.
C33_SameCategoryIsContinuation == SameCategoryRefinement => ~dn.out

\* C33, what the code does: on such a turn the check answers false only when
\* the base query is the category word alone; when the base query holds
\* anything more, the Intent's category differs from it as text and the check
\* answers true.
C33_SameCategoryNewSearchUnlessEqual ==
  SameCategoryRefinement =>
    (dn.out <=> dn.intent.filters["category"] # ToLower(dn.baseQuery))

\* "leather" on the base query "sofa putih" with the Intent category "sofa":
\* the check answers true
C33_Witness ==
  /\ SameCategoryRefinement
  /\ dn.message = "leather" /\ dn.baseQuery = "sofa putih"
  /\ dn.intent.filters = [category |-> "sofa"]
  /\ dn.out

\* the call returned a response
Responded == last.turn.terminal \in {"refusal", "special", "product_info", "search"}

CountMatchesList(response) ==
  /\ response.productCount = Len(response.products)
  /\ response.hasProducts <=> Len(response.products) > 0

\* C34 as stated: in every response (search, special-intent, product_info and
\* refusal terminals) meta.productCount is the number of products in the
\* response's list, and meta.hasProducts is true exactly when it is non-empty.
C34_ProductCountIsListLength == Responded => CountMatchesList(last.turn.response)

\* C34, what the code does: the count matches the list in the refusal, the
\* special-intent and the search responses; the product_info response lists
\* the first three stored results and reports the number of all of them.
C34_ProductInfoCountsAllStored ==
  Responded =>
    IF last.turn.terminal = "product_info"
    THEN /\ last.turn.response.products = firstN(Pre.search.results, 3)
         /\ last.turn.response.productCount = Len(Pre.search.results)
         /\ last.turn.response.hasProducts
         /\ Len(Pre.search.results) > 0
    ELSE CountMatchesList(last.turn.response)

\* product_info after a search that stored four results: three products are
\* returned and productCount is 4
C34_Witness ==
  /\ last.turn.terminal = "product_info"
  /\ Len(Pre.search.results) = 4
  /\ Len(last.turn.response.products) = 3
  /\ last.turn.response.productCount = 4

SearchFailed == Turned /\ last.turn.terminal = "error"

\* C36 as stated: a message whose search call fails leaves the thread's state
\* as it was before the message: filters, search.baseQuery, search.query,
\* search.results, search.resultCount, lastIntent and the message log.
C36_FailedSearchLeavesState ==
  SearchFailed =>
    /\ SameFilters(Post.filters, Pre.filters)
    /\ Post.search = Pre.search
    /\ Post.lastIntent = Pre.lastIntent
    /\ Post.messages = Pre.messages

\* C36, what the code does: search.query, the results, their count,
\* lastIntent and the message log keep their values, while the updates made
\* before the call remain: the filters are the merged ones, and the base query
\* is the new one when the turn was a new search or a first query.
C36_FailedSearchKeepsEarlierUpdates ==
  SearchFailed =>
    /\ Post.search.query = Pre.search.query
    /\ Post.search.results = Pre.search.results
    /\ Post.search.resultCount = Pre.search.resultCount
    /\ Post.lastIntent = Pre.lastIntent
    /\ Post.messages = Pre.messages
    /\ IsMergedFilterMap(Post.filters)
    /\ Post.search.baseQuery =
         (IF ~last.turn.detectNew /\ Pre.search.baseQuery # ""
          THEN Pre.search.baseQuery ELSE NewBaseValue)
    /\ Post.language = last.turn.intent.language

\* "ada meja kayu", classified with search_query "meja kayu", on a thread
\* holding the base query "sofa" and the category filter sofa: the search
\* fails, and the thread is left with the base query "meja kayu" and the
\* filters of the failed turn
C36_Witness ==
  /\ SearchFailed /\ last.message = "ada meja kayu"
  /\ Pre.search.baseQuery = "sofa"
  /\ SameFilters(Pre.filters, [category |-> "sofa"])
  /\ Post.search.baseQuery = "meja kayu"
  /\ SameFilters(Post.filters, [category |-> "meja", material |-> "kayu"])
  /\ Post.search.query = Pre.search.query
  /\ Post.messages = Pre.messages

\* the turn ended in the special-intent terminal, with or without stored products
SpecialTerminal == last.turn.terminal \in {"special", "product_info"}

\* C37: a turn that ends in the special-intent terminal (greeting, help,
\* faq_info or product_info) leaves the filters and the stored search
\* unchanged; it changes only the language, lastIntent and lastFaqTopic, and
\* the message log, to which it appends exactly the one user message.
C37_SpecialTurnLeavesSearchState ==
  SpecialTerminal =>
    /\ ResolvedSpecial
    /\ SameFilters(Post.filters, Pre.filters)
    /\ Post.search = Pre.search
    /\ Post.messages = Append(Pre.messages, [role |-> "user", content |-> last.message])
    /\ Post.lastIntent = last.turn.intent.intent
    /\ Post.language = last.turn.intent.language

\* "where is your store" on a thread that holds a search with results and a
\* filter: the search and the filter are kept, the message is logged
C37_Witness ==
  /\ SpecialTerminal /\ last.message = "where is your store"
  /\ Pre.search.resultCount > 0 /\ Pre.filters # EmptyFilters
  /\ Post.search = Pre.search
  /\ SameFilters(Post.filters, Pre.filters)
  /\ Post.lastIntent = "faq_info"
  /\ Len(Post.messages) = Len(Pre.messages) + 1

\* the follow-up rule replaced the extracted intent
FollowUpResolved == Turned /\ last.turn.intent # last.turn.extracted

\* the reply is one the classifier left unknown, so the follow-up rule fires
AffirmativeReply == Turned /\ last.message = "iya" /\ last.turn.extracted.intent = "unknown"

\* C38: an affirmative reply resolves to product_info only if the latest
\* turn that recorded a lastIntent was a search that stored a result; a
\* completed search turn leaves lastIntent "search" and a special-intent turn
\* leaves that intent, so of two consecutive affirmative replies after a
\* search the first resolves to product_info and the second to help.
C38_SecondAffirmativeIsHelp ==
  /\ (FollowUpResolved /\ last.turn.intent.intent = "product_info")
       => (Pre.lastIntent = "search" /\ Pre.search.resultCount > 0)
  /\ (Turned /\ last.turn.terminal = "search") => Post.lastIntent = "search"
  /\ SpecialTerminal => Post.lastIntent = last.turn.intent.intent
  /\ (AffirmativeReply /\ Pre.lastIntent = "search" /\ Pre.search.resultCount > 0)
       => (last.turn.intent.intent = "product_info" /\ Post.lastIntent = "product_info")
  /\ (AffirmativeReply /\ calls = 3 /\ Pre.lastIntent = "product_info")
       => (last.turn.intent.intent = "help" /\ last.turn.terminal = "special")

\* the third turn: the second "iya", after the first was answered as
\* product_info on the results of "sofa", is answered as help
C38_Witness ==
  /\ AffirmativeReply /\ calls = 3
  /\ Pre.lastIntent = "product_info" /\ Pre.search.resultCount > 0
  /\ Pre.search.query = "sofa"
  /\ last.turn.intent.intent = "help"
  /\ Post.lastIntent = "help"

\* the user-facing category of an error message thrown by callAgent
TaCategory(message) ==
  IF message = UnavailableMessage THEN "service unavailable"
  ELSE IF StartsWith(message, "Agent failed: ") THEN "agent failed"
  ELSE "other"

TaRaised(r) == ta.reqs[r].pc = "raised"

\* rate limit, authentication, or anything else
TaCauseClass(error) ==
  IF error.status = 429 THEN "rate limit"
  ELSE IF error.status = 401 THEN "authentication"
  ELSE "other"

\* C31 as stated: a rate-limit error and an authentication error are mapped
\* to two distinct user-facing categories, service unavailable and
\* misconfiguration, each its own, and re-raised; the call is not retried.
C31_RateLimitAndAuthHaveOwnCategories ==
  \A r \in DOMAIN ta.reqs :
    TaRaised(r) =>
      /\ ta.reqs[r].invokes = 1
      /\ ta.reqs[r].raised # ""
      /\ \A q \in DOMAIN ta.reqs :
           (TaRaised(q) /\ TaCategory(ta.reqs[q].raised) = TaCategory(ta.reqs[r].raised))
             => TaCauseClass(ta.reqs[q].cause) = TaCauseClass(ta.reqs[r].cause)

\* C31, amended: an error with status 429 is re-raised as the fixed
\* "Service temporarily unavailable" error; every other error, an
\* authentication error included, is re-raised as "Agent failed: " followed by
\* its own message, so the two are told apart, but an authentication error
\* has no category of its own. The graph run is started once and not again.
C31_RateLimitElseAgentFailed ==
  \A r \in DOMAIN ta.reqs :
    TaRaised(r) =>
      /\ ta.reqs[r].invokes = 1
      /\ ta.reqs[r].raised =
           (IF ta.reqs[r].cause.status = 429 THEN UnavailableMessage
            ELSE "Agent failed: " \o ta.reqs[r].cause.message)
      /\ TaCategory(ta.reqs[r].raised) =
           (IF ta.reqs[r].cause.status = 429 THEN "service unavailable"
            ELSE "agent failed")

\* one request failed on a rate limit and the other on an invalid API key:
\* the first is told the service is unavailable, the second that the agent
\* failed
C31_Witness ==
  /\ TaRaised("r1") /\ ta.reqs["r1"].cause.status = 429
  /\ ta.reqs["r1"].raised = UnavailableMessage
  /\ TaRaised("r2") /\ ta.reqs["r2"].cause.status = 401
  /\ ta.reqs["r2"].raised = "Agent failed: Invalid API Key"

TaDone(r) == ta.reqs[r].pc = "done"

\* C39 as stated: the products a request returns are the results of the last
\* search_products call made while serving that request, and none if it made
\* no tool call, also when requests overlap.
C39_ProductsAreOwnLastResults ==
  \A r \in DOMAIN ta.reqs :
    TaDone(r) => ta.reqs[r].products = ta.reqs[r].ownLast

\* C39, what the code does: a request returns whatever the shared
\* lastSearchResults holds when it ends; that is its own last results when no
\* other request began or ran a tool call while it was being served.
C39_OwnResultsUnlessOverlapped ==
  \A r \in DOMAIN ta.reqs :
    TaDone(r) =>
      /\ ~ta.reqs[r].disturbed => ta.reqs[r].products = ta.reqs[r].ownLast
      /\ ta.reqs[r].productCount = Len(ta.reqs[r].products)
      /\ ta.reqs[r].hasProducts <=> Len(ta.reqs[r].products) > 0

\* two requests served one after the other, each with a tool call: each
\* returns its own products
C39_Witness ==
  /\ TaDone("r1") /\ TaDone("r2")
  /\ ~ta.reqs["r1"].disturbed /\ ~ta.reqs["r2"].disturbed
  /\ ta.reqs["r1"].toolCalls = 1 /\ ta.reqs["r2"].toolCalls = 1
  /\ ta.reqs["r1"].products = <<"r1-p1">>
  /\ ta.reqs["r2"].products = <<"r2-p1", "r2-p2">>

====
